---- MODULE Spec2Model ----
(***************************************************************************)
(* A model of the disk-image artifact extraction engine                    *)
(* (src/extraction): the orchestrator ForensicExtractor as a state machine *)
(* and the binary parsers it drives as operators over abstract files.      *)
(*                                                                         *)
(* Conventions.  A Python list is a sequence, a dict a record or a         *)
(* function, None is NULL, and an exception that leaves a function is the  *)
(* value RAISE.  A file is not a byte string but a map from offsets to the *)
(* fields stored there together with its size, so that every offset        *)
(* computation, bound test and slice of the code is kept while the field   *)
(* contents stay small.  Text is a sequence of characters or code points.  *)
(***************************************************************************)
EXTENDS Integers, Sequences, FiniteSets, TLC

VARIABLES
    env,        \* the world of one run: image, volume contents, host, arguments
    self,       \* the fields of the ForensicExtractor object
    pc,         \* position of the caller inside extract_all_artifacts
    locals,     \* user_profiles, all_artifacts, summary of extract_all_artifacts
    ret,        \* what extract_all_artifacts gave its caller
    files_out,  \* output files written by _save_artifacts
    input,      \* argument handed to the parser under test
    output      \* what that parser returned

vars == <<env, self, pc, locals, ret, files_out, input, output>>

NULL == "None"
RAISE == "raise"
PENDING == "pending"

\* ---------------------------------------------------------------- bounds
\* records held by every artifact store of a modelled volume
RecsPerStore == 1

\* ------------------------------------------------------------- utilities
Range(s) == {s[i] : i \in 1..Len(s)}

Min2(a, b) == IF a < b THEN a ELSE b

\* the concatenation of a list of lists (repeated list.extend)
RECURSIVE Flatten(_)
Flatten(ss) == IF ss = <<>> THEN <<>> ELSE Head(ss) \o Flatten(Tail(ss))

\* dict.get(key, default)
Get(d, key, default) == IF key \in DOMAIN d THEN d[key] ELSE default

\* n records of one store (a sequence of strings naming it), told apart by
\* store and position
Recs(store, n) == [i \in 1..n |-> [store |-> store, no |-> i]]

\* ------------------------------------------------------------------ text
UpperCase(c) ==
    CASE c = "n" -> "N" [] c = "t" -> "T" [] c = "f" -> "F" [] c = "s" -> "S"
      [] c = "x" -> "X" [] c = "a" -> "A" [] OTHER -> c

\* str.upper()
Upper(s) == [i \in 1..Len(s) |-> UpperCase(s[i])]

\* sub in s
Contains(s, sub) ==
    \E i \in 0..(Len(s) - Len(sub)) : SubSeq(s, i + 1, i + Len(sub)) = sub

\* print(text) raises UnicodeEncodeError when the stream cannot encode text
PrintRaises(host, encodable) == ~host.stdout_unicode /\ ~encodable

\* ------------------------------------------------- the volume of one run
\* Directory entries are [name, encodable]: encodable tells whether every
\* character of the name is ASCII.
Entry(name) == [name |-> name, encodable |-> TRUE]
EntryX(name) == [name |-> name, encodable |-> FALSE]

\* profile directory names that hold a user's files
RealUsers == {"alice", "bob", "zoe"}

HasNtuser(profile) == profile[Len(profile)] \in RealUsers
HasSqlite(profile) == profile[Len(profile)] = "alice"
HasIndexDat(profile) == profile[Len(profile)] \in {"alice", "bob"}

\* ------------------------------------------------ forensic_extractor.py
SectorSize == 512

MatchesNtfs(desc) ==
    \/ Contains(Upper(desc), <<"N", "T", "F", "S">>)
    \/ Contains(desc, <<"0", "x", "0", "7">>)

\* An optional value: None is the empty sequence, a value v is <<v>>.
None == <<>>
Some(v) == <<v>>

\* the loop of _find_ntfs_partition over the partitions from index i on:
\* the offset of the first match, None when none matches
RECURSIVE FirstNtfsFrom(_, _)
FirstNtfsFrom(parts, i) ==
    IF i > Len(parts) THEN None
    ELSE IF MatchesNtfs(parts[i].desc) THEN Some(parts[i].start * SectorSize)
    ELSE FirstNtfsFrom(parts, i + 1)

\* ntfs_offset after _find_ntfs_partition; Volume_Info raising is caught and
\* leaves the field as it was
_find_ntfs_partition(image, old_offset) ==
    IF ~image.vol_ok THEN old_offset
    ELSE LET found == FirstNtfsFrom(image.partitions, 1)
         IN  IF found = None THEN old_offset ELSE found

\* open_image without the check that FS_Info mounted the partition
open_image_unmounted(obj, image) ==
    IF ~image.openable
    THEN [self |-> [obj EXCEPT !.ewf_handle = "created"], ok |-> FALSE]
    ELSE LET off == _find_ntfs_partition(image, obj.ntfs_offset)
             o1 == [obj EXCEPT !.ewf_handle = "open", !.img = "wrapped", !.ntfs_offset = off]
         IN  IF off = None THEN [self |-> o1, ok |-> FALSE]
             ELSE [self |-> [o1 EXCEPT !.fs = "mounted", !.extractors = TRUE], ok |-> TRUE]

\* open_image: the object's fields afterwards and the value returned
open_image(obj, image) ==
    IF ~image.openable
    THEN [self |-> [obj EXCEPT !.ewf_handle = "created"], ok |-> FALSE]
    ELSE LET off == _find_ntfs_partition(image, obj.ntfs_offset)
             o1 == [obj EXCEPT !.ewf_handle = "open", !.img = "wrapped", !.ntfs_offset = off]
         IN  IF off = None THEN [self |-> o1, ok |-> FALSE]
             ELSE IF ~image.mountable THEN [self |-> o1, ok |-> FALSE]
             ELSE [self |-> [o1 EXCEPT !.fs = "mounted", !.extractors = TRUE], ok |-> TRUE]

\* the exclusion list without 'Public'
ExcludedProfilesXp == {".", "..", "All Users", "Default User", "Default"}

ExcludedProfiles == {".", "..", "All Users", "Default User", "Public", "Default"}

\* the inner loop of discover_user_profiles over one directory listing
RECURSIVE ProfilesIn(_, _)
ProfilesIn(base, entries) ==
    IF entries = <<>> THEN <<>>
    ELSE (IF Head(entries).name \notin ExcludedProfiles
          THEN <<<<base, Head(entries).name>>>> ELSE <<>>)
         \o ProfilesIn(base, Tail(entries))

\* discover_user_profiles over the two base directories of a volume; a
\* directory is [exists, entries] and open_dir raises when it does not exist
discover_user_profiles(vol) ==
    (IF vol.docs.exists THEN ProfilesIn("Documents and Settings", vol.docs.entries) ELSE <<>>)
    \o (IF vol.users.exists THEN ProfilesIn("Users", vol.users.entries) ELSE <<>>)

\* ------------------------------------------------------------ FILETIME
\* A FILETIME t counts 100 ns ticks since 1601-01-01 in 64 bits.  It is kept
\* as [days, secs, ticks] with t = (days * 86400 + secs) * 10^7 + ticks, so
\* that the arithmetic of the code is exact within 32-bit integers.
SecondsPerDay == 86400
TicksPerSecond == 10000000
TicksPerMicro == 10
MicrosPerSecond == 1000000
\* 116444736000000000 ticks = 134774 days: 1970-01-01 counted from 1601-01-01
EpochDays == 134774
\* datetime.max (9999-12-31) in days since 1970-01-01
MaxUnixDay == 2932896

FT(d, s, k) == [days |-> d, secs |-> s, ticks |-> k]
FtZero == FT(0, 0, 0)

\* t > 0, t1 < t2, t1 <= t2 on FILETIMEs
FtPositive(t) == t.days > 0 \/ t.secs > 0 \/ t.ticks > 0
FtLess(a, b) ==
    \/ a.days < b.days
    \/ a.days = b.days /\ a.secs < b.secs
    \/ a.days = b.days /\ a.secs = b.secs /\ a.ticks < b.ticks
FtAtLeastEpoch(t) == t.days >= EpochDays

\* round(ticks / 10) to the nearest microsecond, ties to even, as
\* datetime.fromtimestamp rounds the fraction of its float argument
RoundMicros(ticks) ==
    LET q == ticks \div TicksPerMicro
        r == ticks % TicksPerMicro
    IN  IF r * 2 < TicksPerMicro THEN q
        ELSE IF r * 2 > TicksPerMicro THEN q + 1
        ELSE IF q % 2 = 0 THEN q ELSE q + 1

\* an instant [day, sec, micro] with 0 <= sec < 86400 and 0 <= micro < 10^6
Instant(day, sec, micro) ==
    LET s1 == sec + (micro \div MicrosPerSecond)
    IN  [day |-> day + (s1 \div SecondsPerDay), sec |-> s1 % SecondsPerDay,
         micro |-> micro % MicrosPerSecond]

\* datetime.fromtimestamp((t - 116444736000000000) / 10000000).isoformat():
\* the local wall-clock instant, None when fromtimestamp raises.  A negative
\* timestamp raises OSError on Windows and is accepted on POSIX; a year
\* beyond 9999 raises ValueError everywhere.  The calendar rendering of
\* isoformat is one-to-one and is left out.
FromTimestampIso(host, t) ==
    LET day == t.days - EpochDays
        local == Instant(day, t.secs + host.tz_secs + SecondsPerDay, RoundMicros(t.ticks))
        inst == [local EXCEPT !.day = @ - 1]
    IN  IF day < 0 /\ ~host.posix THEN None
        ELSE IF inst.day > MaxUnixDay THEN None
        ELSE Some(inst)

\* "if t > 0: try: dt = fromtimestamp(...) except: dt = None else: dt = None"
\* followed by "dt.isoformat() if dt else None"
FileTimeToIso(host, t) ==
    IF FtPositive(t) THEN FromTimestampIso(host, t) ELSE None

\* ------------------------------------------------ registry_artifacts.py
\* results of functions that may let an exception out
Ok(v) == [raised |-> FALSE, value |-> v]
Raised == [raised |-> TRUE, value |-> <<>>]

\* load_registry_hive with Registry() outside its try: a corrupt hive raises
load_registry_hive_unguarded(host, hive) ==
    IF hive.state = "missing" THEN Ok(NULL)
    ELSE IF hive.kind \in host.tmp_fail \/ hive.state = "corrupt" THEN Raised
    ELSE Ok("reg")

\* load_registry_hive on a hive [kind, state]: "reg" for a loaded hive, NULL.
\* read_file_bytes gives None for a missing file; write_temp stands outside
\* the try and fails for the hive kinds in host.tmp_fail; a hive that
\* Registry() cannot parse gives None.
load_registry_hive(host, hive) ==
    IF hive.state = "missing" THEN Ok(NULL)
    ELSE IF hive.kind \in host.tmp_fail THEN Raised
    ELSE IF hive.state = "corrupt" THEN Ok(NULL)
    ELSE Ok("reg")

\* the hive behind a path of the volume
SystemHive(vol) == [kind |-> "SYSTEM", state |-> vol.system_hive]
SoftwareHive(vol) == [kind |-> "SOFTWARE", state |-> vol.software_hive]
NtuserHive(vol, profile) ==
    [kind |-> "NTUSER", state |-> IF HasNtuser(profile) THEN "ok" ELSE "missing"]

\* an extract_* function that loads one hive and reads `found` from it:
\* if not reg: return []
FromHive(host, hive, found) ==
    LET reg == load_registry_hive(host, hive)
    IN  IF reg.raised THEN Raised
        ELSE IF reg.value = NULL THEN Ok(<<>>)
        ELSE Ok(found)

extract_usb_history(host, vol) ==
    FromHive(host, SystemHive(vol), Recs(<<"usbstor">>, RecsPerStore) \o Recs(<<"usb">>, RecsPerStore))

extract_userassist_of(host, vol, profile) ==
    FromHive(host, NtuserHive(vol, profile), Recs(<<"userassist">> \o profile, RecsPerStore))

extract_installed_programs_of(host, vol) ==
    FromHive(host, SoftwareHive(vol), Recs(<<"program">>, RecsPerStore))

extract_last_logged_user(host, vol) ==
    FromHive(host, SoftwareHive(vol), Recs(<<"winlogon">>, RecsPerStore))

extract_timezone_info(host, vol) ==
    FromHive(host, SystemHive(vol), Recs(<<"timezone">>, RecsPerStore))

extract_network_info(host, vol) ==
    FromHive(host, SystemHive(vol), Recs(<<"adapter">>, RecsPerStore))

\* a loop "for p in profiles: acc.extend(f(p))" that an exception leaves
RECURSIVE ForProfiles(_, _, _, _)
ForProfiles(host, vol, profiles, what) ==
    IF profiles = <<>> THEN Ok(<<>>)
    ELSE LET one == IF what = "userassist"
                    THEN extract_userassist_of(host, vol, Head(profiles))
                    ELSE FromHive(host, NtuserHive(vol, Head(profiles)),
                                  Recs(<<"run_user">> \o Head(profiles), RecsPerStore))
         IN  IF one.raised THEN Raised
             ELSE LET rest == ForProfiles(host, vol, Tail(profiles), what)
                  IN  IF rest.raised THEN Raised ELSE Ok(one.value \o rest.value)

extract_run_keys(host, vol, profiles) ==
    LET sys == FromHive(host, SoftwareHive(vol), Recs(<<"run_system">>, RecsPerStore))
    IN  IF sys.raised THEN Raised
        ELSE LET usr == ForProfiles(host, vol, profiles, "run_user")
             IN  IF usr.raised THEN Raised ELSE Ok(sys.value \o usr.value)

EmptyRegistry ==
    [usb_history |-> <<>>, userassist |-> <<>>, installed_programs |-> <<>>,
     run_keys |-> <<>>, last_logged_user |-> <<>>, timezone_info |-> <<>>,
     network_info |-> <<>>]

\* extract_all_registry_artifacts: one try around seven assignments; the
\* first exception keeps what was assigned before it and raises nothing
extract_all_registry_artifacts(host, vol, profiles) ==
    LET a0 == EmptyRegistry
        r1 == extract_usb_history(host, vol)
        a1 == [a0 EXCEPT !.usb_history = r1.value]
        r2 == ForProfiles(host, vol, profiles, "userassist")
        a2 == [a1 EXCEPT !.userassist = r2.value]
        r3 == extract_installed_programs_of(host, vol)
        a3 == [a2 EXCEPT !.installed_programs = r3.value]
        r4 == extract_run_keys(host, vol, profiles)
        a4 == [a3 EXCEPT !.run_keys = r4.value]
        r5 == extract_last_logged_user(host, vol)
        a5 == [a4 EXCEPT !.last_logged_user = r5.value]
        r6 == extract_timezone_info(host, vol)
        a6 == [a5 EXCEPT !.timezone_info = r6.value]
        r7 == extract_network_info(host, vol)
        a7 == [a6 EXCEPT !.network_info = r7.value]
    IN  IF r1.raised THEN a0
        ELSE IF r2.raised THEN a1
        ELSE IF r3.raised THEN a2
        ELSE IF r4.raised THEN a3
        ELSE IF r5.raised THEN a4
        ELSE IF r6.raised THEN a5
        ELSE IF r7.raised THEN a6
        ELSE a7

\* ForensicExtractor.extract_registry_artifacts: discovers the profiles
\* again and hands their NTUSER.DAT paths to the registry parser
extract_registry_artifacts(host, vol) ==
    extract_all_registry_artifacts(host, vol, discover_user_profiles(vol))

\* ------------------------------------------------------- recycle_bin.py
\* str.rstrip('\x00') on a sequence of code units
RECURSIVE RStripNul(_)
RStripNul(u) ==
    IF u # <<>> /\ u[Len(u)] = 0 THEN RStripNul(SubSeq(u, 1, Len(u) - 1)) ELSE u

\* the code points of "Unknown"
UnknownText == <<85, 110, 107, 110, 111, 119, 110>>

Info2HeaderSize == 20
Info2RecordSize == 800
DriveLetters == 26

\* An INFO2 file is [readable, size, recs]: recs[k + 1] is what the 800 bytes
\* from offset 20 + 800 k hold; a read at any other offset straddles two
\* records and yields the marker record Straddled.
Straddled ==
    [name_ok |-> FALSE, name_unicode |-> <<>>, name_ansi |-> <<>>, record_number |-> -1,
     drive_number |-> -1, deletion_time |-> FtZero, file_size |-> -1]

\* raw_data[offset:offset + record_size]
Info2RecordAt(file, offset) ==
    LET k == (offset - Info2HeaderSize) \div Info2RecordSize
    IN  IF (offset - Info2HeaderSize) % Info2RecordSize = 0 /\ k + 1 <= Len(file.recs)
        THEN file.recs[k + 1] ELSE Straddled

\* the body of the record loop of parse_info2_file: one dict per record
Info2Decode(host, r) ==
    LET filename_unicode == IF r.name_ok THEN RStripNul(r.name_unicode) ELSE <<>>
        filename_ansi == RStripNul(r.name_ansi)
        drive_letter == IF r.drive_number < DriveLetters
                        THEN <<65 + r.drive_number>> ELSE UnknownText
    IN  [original_filename |-> IF filename_unicode # <<>> THEN filename_unicode
                               ELSE filename_ansi,
         recycle_filename |-> <<"D", drive_letter, r.record_number>>,
         deletion_time |-> FileTimeToIso(host, r.deletion_time),
         file_size |-> r.file_size,
         drive_number |-> r.drive_number,
         drive_letter |-> drive_letter,
         record_number |-> r.record_number]

\* the record loop with "<" for "<=": a record that ends the file is lost
RECURSIVE Info2LoopStrict(_, _, _)
Info2LoopStrict(host, file, offset) ==
    IF offset + Info2RecordSize < file.size
    THEN <<Info2Decode(host, Info2RecordAt(file, offset))>>
         \o Info2LoopStrict(host, file, offset + Info2RecordSize)
    ELSE <<>>

\* while offset + record_size <= len(raw_data): ...; offset += record_size
RECURSIVE Info2Loop(_, _, _)
Info2Loop(host, file, offset) ==
    IF offset + Info2RecordSize <= file.size
    THEN <<Info2Decode(host, Info2RecordAt(file, offset))>>
         \o Info2Loop(host, file, offset + Info2RecordSize)
    ELSE <<>>

parse_info2_file(host, file) ==
    IF ~file.readable \/ file.size = 0 THEN <<>>
    ELSE IF file.size < Info2HeaderSize THEN <<>>
    ELSE Info2Loop(host, file, Info2HeaderSize)

VistaHeaderSize == 24

\* str.startswith(prefix), name[2:]
StartsWith(name, prefix) ==
    Len(name) >= Len(prefix) /\ SubSeq(name, 1, Len(prefix)) = prefix
AfterPrefix(name) == SubSeq(name, 3, Len(name))

\* _parse_vista_info_file on a metadata file [readable, size, header_size,
\* deletion_time, file_size, name_ok, name]: its dict, None below 24 bytes
_parse_vista_info_file(host, info, identifier) ==
    IF info.size < VistaHeaderSize THEN None
    ELSE Some([original_filename |-> IF info.name_ok THEN RStripNul(info.name)
                                     ELSE UnknownText,
               recycle_filename |-> <<"$", "R">> \o identifier,
               info_filename |-> <<"$", "I">> \o identifier,
               deletion_time |-> FileTimeToIso(host, info.deletion_time),
               file_size |-> info.file_size,
               header_size |-> info.header_size,
               identifier |-> identifier])

\* the grouping loop of parse_recycle_bin_vista_plus: file_pairs as a list
\* of [id, info, data] in the order the identifiers were first seen; info
\* and data are optional directory entries
PairIndex(pairs, id) ==
    IF \E i \in 1..Len(pairs) : pairs[i].id = id
    THEN CHOOSE i \in 1..Len(pairs) : pairs[i].id = id ELSE 0

PutPair(pairs, id, key, entry) ==
    LET i == PairIndex(pairs, id)
        fresh == [id |-> id, info |-> None, data |-> None]
    IN  IF i = 0
        THEN Append(pairs, IF key = "info_file" THEN [fresh EXCEPT !.info = Some(entry)]
                           ELSE [fresh EXCEPT !.data = Some(entry)])
        ELSE IF key = "info_file" THEN [pairs EXCEPT ![i].info = Some(entry)]
        ELSE [pairs EXCEPT ![i].data = Some(entry)]

RECURSIVE GroupPairs(_, _)
GroupPairs(entries, pairs) ==
    IF entries = <<>> THEN pairs
    ELSE LET e == Head(entries)
         IN  GroupPairs(Tail(entries),
                 IF StartsWith(e.name, <<"$", "I">>)
                 THEN PutPair(pairs, AfterPrefix(e.name), "info_file", e)
                 ELSE IF StartsWith(e.name, <<"$", "R">>)
                 THEN PutPair(pairs, AfterPrefix(e.name), "data_file", e)
                 ELSE pairs)

\* the second loop emitting a record only for a complete $I/$R pair
RECURSIVE VistaRecordsPaired(_, _, _)
VistaRecordsPaired(host, dirpath, pairs) ==
    IF pairs = <<>> THEN <<>>
    ELSE LET f == Head(pairs)
             info == f.info[1].content
             parsed == _parse_vista_info_file(host, info, f.id)
         IN  (IF f.info # None /\ f.data # None /\ info.readable /\ info.size > 0
                 /\ parsed # None
              THEN <<parsed[1] @@ [data_file_size |-> f.data[1].size,
                                   data_file_path |-> Append(dirpath, f.data[1].name)]>>
              ELSE <<>>)
             \o VistaRecordsPaired(host, dirpath, Tail(pairs))

\* the second loop of parse_recycle_bin_vista_plus over the pairs
RECURSIVE VistaRecords(_, _, _)
VistaRecords(host, dirpath, pairs) ==
    IF pairs = <<>> THEN <<>>
    ELSE LET f == Head(pairs)
             info == f.info[1].content
             parsed == _parse_vista_info_file(host, info, f.id)
             rec == IF f.data = None THEN parsed[1]
                    ELSE parsed[1] @@ [data_file_size |-> f.data[1].size,
                                       data_file_path |-> Append(dirpath, f.data[1].name)]
         IN  (IF f.info # None /\ info.readable /\ info.size > 0 /\ parsed # None
              THEN <<rec>> ELSE <<>>)
             \o VistaRecords(host, dirpath, Tail(pairs))

\* parse_recycle_bin_vista_plus on a directory [path, exists, entries], each
\* entry [name, size, content]; a directory that cannot be listed is empty
parse_recycle_bin_vista_plus(host, dir) ==
    VistaRecords(host, dir.path,
                 GroupPairs(IF dir.exists THEN dir.entries ELSE <<>>, <<>>))

\* -------------------------------------------------------- event_logs.py
\* An event-log file is [readable, size, tok, u32, rec]: tok maps the offsets
\* where a four-byte signature starts to that signature, u32 the offsets of
\* 32-bit little-endian fields to their values, rec the offsets where a
\* record starts to its contents.  Every other byte is filler that matches
\* no signature and reads as 0.
EvtMinFile == 48
EvtScanLimit == 512
EvtScanStep == 4
EvtRecordHeader == 56
EvtBadLengthSkip == 8
\* the file header is unpacked up to raw_data[20:24]
EvtHeaderRead == 24

FileSignatures == {"LfLe", "ElfF"}

\* raw_data[off:off + 4] as a signature, "" when it is none
Bytes4(file, off) ==
    IF off \in DOMAIN file.tok /\ off + 4 <= file.size THEN file.tok[off] ELSE ""

\* struct.unpack('<I', raw_data[off:off + 4])[0]
U32At(file, off) == IF off \in DOMAIN file.u32 THEN file.u32[off] ELSE 0

\* for i in range(0, min(512, len(raw_data) - 4), 4): the first i that holds
\* a file signature, -1 when the loop ends without one
ScanSignature(file, i) ==
    LET visited == {j \in i..(Min2(EvtScanLimit, file.size - 4) - 1) :
                       (j - i) % EvtScanStep = 0}
        hits == {j \in visited : Bytes4(file, j) \in FileSignatures}
    IN  IF hits = {} THEN -1 ELSE CHOOSE j \in hits : \A q \in hits : j <= q

\* what filler bytes decode to when they are read as a record
EvtFiller == [record_number |-> 0, event_id |-> 0, strings |-> <<>>]

\* _parse_evt_record on the contents stored for one record
_parse_evt_record(r) ==
    [record_number |-> r.record_number, event_id |-> r.event_id, strings |-> r.strings]

\* The record loop of parse_evt_file; base is the offset raw_data was cut at.
\* Steps of "offset += 1" over bytes that start no record signature are
\* taken together: the loop resumes at the next offset that holds 'LfLe'.
RECURSIVE EvtLoop(_, _, _)
EvtLoop(file, base, offset) ==
    LET len == file.size - base
        stops == {o \in DOMAIN file.tok :
                     o - base >= offset /\ o - base < len - 8 /\ Bytes4(file, o) = "LfLe"}
    IN  IF ~(offset < len - 8) \/ stops = {} THEN <<>>
        ELSE LET at == CHOOSE o \in stops : \A q \in stops : o <= q
                 off == at - base
                 record_length == U32At(file, at + 4)
             IN  IF record_length < EvtRecordHeader \/ off + record_length > len
                 THEN EvtLoop(file, base, off + EvtBadLengthSkip)
                 ELSE <<_parse_evt_record(IF at \in DOMAIN file.rec THEN file.rec[at]
                                          ELSE EvtFiller)>>
                      \o EvtLoop(file, base, off + record_length)

parse_evt_file(file) ==
    IF ~file.readable \/ file.size = 0 THEN <<>>
    ELSE IF file.size < EvtMinFile THEN <<>>
    ELSE LET base == IF Bytes4(file, 0) \in FileSignatures THEN 0
                     ELSE ScanSignature(file, 0)
         IN  IF base < 0 THEN <<>>
             ELSE IF file.size - base < EvtHeaderRead THEN <<>>
             ELSE EvtLoop(file, base, U32At(file, base + 4))

\* ---------------------------------------------------- registry: UserAssist
\* a rotation by 13 that does not wrap around the alphabet
Rot13CharNoWrap(c) ==
    IF (c >= 65 /\ c <= 90) \/ (c >= 97 /\ c <= 122) THEN c + 13 ELSE c

\* codecs.decode(name, 'rot13') on one code point: the 26 letters of each
\* case are rotated by 13, every other character is kept
Rot13Char(c) ==
    IF c >= 65 /\ c <= 90 THEN 65 + ((c - 65 + 13) % 26)
    ELSE IF c >= 97 /\ c <= 122 THEN 97 + ((c - 97 + 13) % 26)
    ELSE c

Rot13(name) == [i \in 1..Len(name) |-> Rot13Char(name[i])]

UserAssistMinData == 16
UserAssistWin7Data == 72

\* The body of "for value in count_key.values()" for one value [name, data],
\* data being [kind, size, run_count, last_run_xp, last_run_win7]:
\* "entry" with the dict appended, "skip" when nothing is appended, "raise"
\* when the exception leaves the loop (len() of a number).
UserAssistValue(host, guid, value) ==
    LET d == value.data
        last_run_time == IF d.size >= UserAssistWin7Data THEN d.last_run_win7
                         ELSE d.last_run_xp
        dt == FromTimestampIso(host, last_run_time)
        entry == [guid |-> guid, program |-> Rot13(value.name), run_count |-> d.run_count,
                  last_run |-> IF FtPositive(last_run_time) THEN dt ELSE None]
    IN  IF d.kind = "int" THEN [kind |-> "raise", entry |-> entry]
        ELSE IF d.size < UserAssistMinData THEN [kind |-> "skip", entry |-> entry]
        ELSE IF d.kind # "bytes" THEN [kind |-> "skip", entry |-> entry]
        ELSE IF FtPositive(last_run_time) /\ dt = None THEN [kind |-> "skip", entry |-> entry]
        ELSE [kind |-> "entry", entry |-> entry]

\* the values of one Count key, up to the first exception that leaves the loop
RECURSIVE UserAssistValues(_, _, _)
UserAssistValues(host, guid, values) ==
    IF values = <<>> THEN <<>>
    ELSE LET r == UserAssistValue(host, guid, Head(values))
         IN  IF r.kind = "raise" THEN <<>>
             ELSE (IF r.kind = "entry" THEN <<r.entry>> ELSE <<>>)
                  \o UserAssistValues(host, guid, Tail(values))

\* "for guid_key in userassist_key.subkeys()": a GUID without a Count key
\* raises inside the per-GUID try and is passed over
RECURSIVE UserAssistGuids(_, _)
UserAssistGuids(host, guids) ==
    IF guids = <<>> THEN <<>>
    ELSE (IF Head(guids).has_count
          THEN UserAssistValues(host, Head(guids).name, Head(guids).values) ELSE <<>>)
         \o UserAssistGuids(host, Tail(guids))

\* extract_userassist on a loaded NTUSER.DAT hive [has_userassist, guids]
extract_userassist(host, reg) ==
    IF reg.has_userassist THEN UserAssistGuids(host, reg.guids) ELSE <<>>

\* --------------------------------------------------- filesystem_artifacts.py
\* A shell-link file is [readable, size, sig_ok, link_flags, file_attributes,
\* creation_time, access_time, write_time, file_size, icon_index,
\* show_command, u16, u32, text, linkinfo]: u16 and u32 map offsets of
\* little-endian fields to values, text the offsets where UTF-16LE text
\* starts to its code units, linkinfo the offset of a LinkInfo block to it.
LnkHeaderSize == 76
LinkInfoMinSize == 28

HasLinkTargetIDList == 1
HasLinkInfo == 2
HasName == 4
HasRelativePath == 8
HasWorkingDir == 16
HasArguments == 32
HasIconLocation == 64

\* flags & mask, for a mask of one bit
Bit(flags, mask) == (flags \div mask) % 2 = 1

U16At(file, off) == IF off \in DOMAIN file.u16 THEN file.u16[off] ELSE 0

\* lnk_data[off:off + 2 * n].decode('utf-16le', errors='ignore'): the text
\* stored there, n filler characters (code unit 0) when none starts at off
TextAt(file, off, n) ==
    IF off \in DOMAIN file.text /\ Len(file.text[off]) = n THEN file.text[off]
    ELSE [i \in 1..n |-> 0]

\* _parse_string_data: the pair (string, offset) as [value, offset]
_parse_string_data(file, offset) ==
    IF offset + 2 > file.size THEN [value |-> <<>>, offset |-> offset]
    ELSE LET string_length == U16At(file, offset)
             start == offset + 2
         IN  IF start + string_length * 2 > file.size
             THEN [value |-> <<>>, offset |-> start]
             ELSE [value |-> TextAt(file, start, string_length),
                   offset |-> start + string_length * 2]

\* _parse_linkinfo on lnk_data[offset:offset + linkinfo_size], a block
\* [size, flags, local_off, local_path, net_off, net_path]; a path is found
\* when its terminating zero byte lies inside the slice
_parse_linkinfo(file, offset, linkinfo_size) ==
    LET len == Min2(linkinfo_size, file.size - offset)
        li == file.linkinfo[offset]
    IN  IF offset \notin DOMAIN file.linkinfo \/ len < LinkInfoMinSize THEN <<>>
        ELSE IF Bit(li.flags, 1) /\ li.local_off < len
                /\ li.local_off + Len(li.local_path) < len THEN li.local_path
        ELSE IF Bit(li.flags, 2) /\ li.net_off < len
                /\ li.net_off + Len(li.net_path) < len THEN li.net_path
        ELSE <<>>

\* _parse_link_file: None for a short file or a wrong signature, else the
\* dict.  name and relative_path are read, to advance the offset, and are
\* not part of the dict.
_parse_link_file(host, file, filename) ==
    IF file.size < LnkHeaderSize \/ ~file.sig_ok THEN None
    ELSE
    LET flags == file.link_flags
        o0 == LnkHeaderSize
        o1 == IF Bit(flags, HasLinkTargetIDList) /\ o0 + 2 <= file.size
              THEN o0 + 2 + U16At(file, o0) ELSE o0
        has_li == Bit(flags, HasLinkInfo) /\ o1 + 4 <= file.size
        linkinfo_size == IF o1 \in DOMAIN file.u32 THEN file.u32[o1] ELSE 0
        target_path == IF has_li THEN _parse_linkinfo(file, o1, linkinfo_size) ELSE <<>>
        o2 == IF has_li THEN o1 + linkinfo_size ELSE o1
        name == IF Bit(flags, HasName) THEN _parse_string_data(file, o2)
                ELSE [value |-> <<>>, offset |-> o2]
        relative_path == IF Bit(flags, HasRelativePath)
                         THEN _parse_string_data(file, name.offset)
                         ELSE [value |-> <<>>, offset |-> name.offset]
        working_directory == IF Bit(flags, HasWorkingDir)
                             THEN _parse_string_data(file, relative_path.offset)
                             ELSE [value |-> <<>>, offset |-> relative_path.offset]
        arguments == IF Bit(flags, HasArguments)
                     THEN _parse_string_data(file, working_directory.offset)
                     ELSE [value |-> <<>>, offset |-> working_directory.offset]
        icon_location == IF Bit(flags, HasIconLocation)
                         THEN _parse_string_data(file, arguments.offset)
                         ELSE [value |-> <<>>, offset |-> arguments.offset]
    IN  Some([filename |-> filename,
              target_path |-> target_path,
              arguments |-> arguments.value,
              working_directory |-> working_directory.value,
              icon_location |-> icon_location.value,
              creation_time |-> FileTimeToIso(host, file.creation_time),
              access_time |-> FileTimeToIso(host, file.access_time),
              write_time |-> FileTimeToIso(host, file.write_time),
              file_size |-> file.file_size,
              file_attributes |-> file.file_attributes,
              icon_index |-> file.icon_index,
              show_command |-> file.show_command,
              link_flags |-> flags])

\* ------------------------------------- the five categories on one volume
\* open_dir and open of the NTFS view compare names without regard to case,
\* so every spelling of a path reaches the same directory.
RecycleLocations == <<"RECYCLER", "Recycler", "$Recycle.Bin", "RECYCLED">>

\* the directory a recycle-bin path names on the volume, "" when none does
RecycleDirAt(vol, path) ==
    IF path \in {"RECYCLER", "Recycler"} /\ vol.recycle = "xp" THEN "xp_2000"
    ELSE IF path = "$Recycle.Bin" /\ vol.recycle = "vista" THEN "vista_plus"
    ELSE ""

\* analyze_recycle_bin_locations and the loop of
\* extract_all_recycle_bin_artifacts over the locations from index i on:
\* the records of the INFO2 file, or of the one user directory, found there
RECURSIVE DeletedFilesFrom(_, _)
DeletedFilesFrom(vol, i) ==
    IF i > Len(RecycleLocations) THEN <<>>
    ELSE LET kind == RecycleDirAt(vol, RecycleLocations[i])
         IN  (IF kind = "xp_2000" THEN Recs(<<"INFO2">>, RecsPerStore)
              ELSE IF kind = "vista_plus" THEN Recs(<<"$I">>, RecsPerStore)
              ELSE <<>>)
             \o DeletedFilesFrom(vol, i + 1)

FoundLocations(vol) ==
    SelectSeq(RecycleLocations, LAMBDA path : RecycleDirAt(vol, path) # "")

\* extract_all_recycle_bin_artifacts: no statement of it is inside a try
extract_all_recycle_bin_artifacts(host, vol) ==
    LET deleted == DeletedFilesFrom(vol, 1)
    IN  Ok([locations |-> FoundLocations(vol),
            deleted_files |-> deleted,
            summary |-> [total_deleted_files |-> Len(deleted)]])

\* name.lower().endswith(('.evt', '.evtx')) and the type list_event_log_files
\* gives a log file: "evt", "evtx", or "" for a name it leaves out
LogType(ext) ==
    IF ext \in {".evt", ".Evt", ".EVT"} THEN "evt"
    ELSE IF ext \in {".evtx", ".EVTX"} THEN "evtx"
    ELSE ""

\* the loop "for log_file in log_files" of extract_all_event_log_artifacts:
\* print(name) stands outside every try, and only .evt files are parsed
RECURSIVE EventsOf(_, _)
EventsOf(host, files) ==
    IF files = <<>> THEN Ok(<<>>)
    ELSE LET f == Head(files)
             rest == EventsOf(host, Tail(files))
         IN  IF LogType(f.ext) = "" THEN rest
             ELSE IF PrintRaises(host, f.encodable) THEN Raised
             ELSE IF rest.raised THEN Raised
             ELSE Ok((IF LogType(f.ext) = "evt"
                      THEN Recs(<<"event", f.name>>, RecsPerStore) ELSE <<>>) \o rest.value)

extract_all_event_log_artifacts(host, vol) ==
    LET ev == EventsOf(host, vol.evt_files)
        logs == SelectSeq(vol.evt_files, LAMBDA f : LogType(f.ext) # "")
    IN  IF ev.raised THEN Raised
        ELSE Ok([log_files |-> logs, all_events |-> ev.value,
                 summary |-> [total_events |-> Len(ev.value)]])

EmptyFilesystem == [prefetch_files |-> <<>>, link_files |-> <<>>, jump_lists |-> <<>>]

\* the .lnk files parse_link_files finds below the profile directories
RECURSIVE LinksOf(_)
LinksOf(profiles) ==
    IF profiles = <<>> THEN <<>>
    ELSE (IF HasNtuser(Head(profiles)) THEN Recs(<<"lnk">> \o Head(profiles), RecsPerStore)
          ELSE <<>>) \o LinksOf(Tail(profiles))

\* extract_all_filesystem_artifacts: one try around the whole body.
\* parse_prefetch_files calls datetime.fromtimestamp on the creation time of
\* each .pf entry outside any try of its own; when that raises, the except
\* of the caller leaves every list as it was initialised.
extract_all_filesystem_artifacts(host, vol) ==
    IF ~vol.prefetch_times_ok THEN EmptyFilesystem
    ELSE [prefetch_files |-> Recs(<<"prefetch">>, RecsPerStore),
          link_files |-> LinksOf(discover_user_profiles(vol)),
          jump_lists |-> <<>>]

EmptyFamily == [history |-> <<>>, cookies |-> <<>>, downloads |-> <<>>]
EmptyBrowsers ==
    [firefox |-> EmptyFamily, chrome_edge |-> EmptyFamily,
     internet_explorer |-> [history |-> <<>>, cookies |-> <<>>]]

Family(tag, profile) ==
    [history |-> Recs(<<tag, "history">> \o profile, RecsPerStore),
     cookies |-> Recs(<<tag, "cookies">> \o profile, RecsPerStore),
     downloads |-> Recs(<<tag, "downloads">> \o profile, RecsPerStore)]

\* extract_firefox_artifacts: write_temp raising is caught per profile
\* directory, which then adds nothing
extract_firefox_artifacts(host, profile) ==
    IF HasSqlite(profile) /\ "sqlite" \notin host.tmp_fail
    THEN Family("firefox", profile) ELSE EmptyFamily

\* extract_chrome_edge_artifacts has no try: write_temp raising leaves it
extract_chrome_edge_artifacts(host, profile) ==
    IF ~HasSqlite(profile) THEN Ok(EmptyFamily)
    ELSE IF "sqlite" \in host.tmp_fail THEN Raised
    ELSE Ok(Family("chrome", profile))

extract_ie_artifacts(profile) ==
    IF HasIndexDat(profile)
    THEN [history |-> Recs(<<"ie", "history">> \o profile, RecsPerStore),
          cookies |-> Recs(<<"ie", "cookies">> \o profile, RecsPerStore)]
    ELSE [history |-> <<>>, cookies |-> <<>>]

ExtendFamily(a, b) ==
    [k \in DOMAIN a |-> a[k] \o b[k]]

\* extract_all_browser_artifacts: one try per profile; an exception keeps
\* what the profile had added before it and goes on with the next profile
RECURSIVE BrowsersOf(_, _, _)
BrowsersOf(host, profiles, acc) ==
    IF profiles = <<>> THEN acc
    ELSE LET p == Head(profiles)
             a1 == [acc EXCEPT !.firefox = ExtendFamily(@, extract_firefox_artifacts(host, p))]
             ce == extract_chrome_edge_artifacts(host, p)
             a2 == [a1 EXCEPT !.chrome_edge = ExtendFamily(@, ce.value)]
             a3 == [a2 EXCEPT !.internet_explorer = ExtendFamily(@, extract_ie_artifacts(p))]
         IN  BrowsersOf(host, Tail(profiles), IF ce.raised THEN a1 ELSE a3)

extract_all_browser_artifacts(host, profiles) == BrowsersOf(host, profiles, EmptyBrowsers)

\* ------------------------------- forensic_extractor.py: one extraction
Categories ==
    {"browser_artifacts", "registry_artifacts", "recycle_bin_artifacts",
     "event_log_artifacts", "filesystem_artifacts"}

NoArtifacts == [c \in {} |-> <<>>]

\* print(f"Found {len(user_profiles)} user profiles: {user_profiles}") raises
\* when a listed profile name has a character the host's stdout cannot encode
ProfilesPrintable(host, vol) ==
    \A d \in {vol.docs, vol.users} :
        d.exists => \A i \in 1..Len(d.entries) :
            d.entries[i].name \in ExcludedProfiles
            \/ ~PrintRaises(host, d.entries[i].encodable)

Total(artifacts, category, keys) ==
    IF category \in DOMAIN artifacts THEN Len(Flatten([i \in 1..Len(keys) |-> artifacts[category][keys[i]]]))
    ELSE 0

\* the sum over firefox and chrome_edge alone
BrowserTotalWithoutIe(artifacts, key) ==
    LET b == artifacts["browser_artifacts"]
    IN  Len(b.firefox[key]) + Len(b.chrome_edge[key])

BrowserTotal(artifacts, key) ==
    LET b == artifacts["browser_artifacts"]
    IN  Len(b.firefox[key]) + Len(b.chrome_edge[key])
        + (IF key \in DOMAIN b.internet_explorer THEN Len(b.internet_explorer[key]) ELSE 0)

_generate_summary(artifacts) ==
    [total_browser_history |-> BrowserTotal(artifacts, "history"),
     total_browser_cookies |-> BrowserTotal(artifacts, "cookies"),
     total_browser_downloads |-> BrowserTotal(artifacts, "downloads"),
     total_usb_devices |-> Total(artifacts, "registry_artifacts", <<"usb_history">>),
     total_userassist_entries |-> Total(artifacts, "registry_artifacts", <<"userassist">>),
     total_installed_programs |-> Total(artifacts, "registry_artifacts", <<"installed_programs">>),
     total_run_keys |-> Total(artifacts, "registry_artifacts", <<"run_keys">>),
     total_deleted_files |-> Total(artifacts, "recycle_bin_artifacts", <<"deleted_files">>),
     total_event_log_entries |-> Total(artifacts, "event_log_artifacts", <<"all_events">>),
     total_prefetch_files |-> Total(artifacts, "filesystem_artifacts", <<"prefetch_files">>),
     total_link_files |-> Total(artifacts, "filesystem_artifacts", <<"link_files">>)]

\* _save_artifacts: open() or json.dump raising is caught and only printed
_save_artifacts(written, artifacts, output_file) ==
    IF output_file.writable THEN written \cup {[path |-> output_file.path, document |-> artifacts]}
    ELSE written

Pending == [kind |-> PENDING, value |-> NoArtifacts]
Returned(kind, value) == [kind |-> kind, value |-> value]

\* an exception leaves extract_all_artifacts: nothing is returned
Escapes ==
    /\ pc' = "done"
    /\ ret' = Returned(RAISE, NoArtifacts)

\* if not self.open_image(): return None
OpenImage ==
    /\ pc = "open_image"
    /\ LET r == open_image(self, env.image)
       IN  /\ self' = r.self
           /\ IF r.ok THEN pc' = "discover" /\ ret' = ret
              ELSE pc' = "done" /\ ret' = Returned(NULL, NoArtifacts)
    /\ UNCHANGED <<env, locals, files_out, input, output>>

\* user_profiles = self.discover_user_profiles() and the print after it
Discover ==
    /\ pc = "discover"
    /\ LET found == discover_user_profiles(env.vol)
       IN  locals' = [locals EXCEPT
                        !.user_profiles = found,
                        !.all_artifacts = ("extraction_info" :>
                            [ntfs_offset |-> self.ntfs_offset, user_profiles |-> found])]
    /\ IF ProfilesPrintable(env.host, env.vol) THEN pc' = "browser" /\ ret' = ret
       ELSE Escapes
    /\ UNCHANGED <<env, self, files_out, input, output>>

\* one entry of the dict literal all_artifacts: the category's value, or the
\* exception the extractor let through
Category(at, name, result, next) ==
    /\ pc = at
    /\ IF result.raised THEN Escapes /\ locals' = locals
       ELSE /\ pc' = next
            /\ ret' = ret
            /\ locals' = [locals EXCEPT !.all_artifacts = @ @@ (name :> result.value)]
    /\ UNCHANGED <<env, self, files_out, input, output>>

ExtractBrowser ==
    Category("browser", "browser_artifacts",
             Ok(extract_all_browser_artifacts(env.host, locals.user_profiles)), "registry")

ExtractRegistry ==
    Category("registry", "registry_artifacts",
             Ok(extract_registry_artifacts(env.host, env.vol)), "recycle_bin")

ExtractRecycleBin ==
    Category("recycle_bin", "recycle_bin_artifacts",
             extract_all_recycle_bin_artifacts(env.host, env.vol), "event_log")

ExtractEventLogs ==
    Category("event_log", "event_log_artifacts",
             extract_all_event_log_artifacts(env.host, env.vol), "filesystem")

ExtractFilesystem ==
    Category("filesystem", "filesystem_artifacts",
             Ok(extract_all_filesystem_artifacts(env.host, env.vol)), "summary")

\* summary, the optional save, and return all_artifacts
Finish ==
    /\ pc = "summary"
    /\ LET doc == locals.all_artifacts @@ ("summary" :> _generate_summary(locals.all_artifacts))
       IN  /\ locals' = [locals EXCEPT !.all_artifacts = doc]
           /\ files_out' = IF env.output_file = None THEN files_out
                           ELSE _save_artifacts(files_out, doc, env.output_file[1])
           /\ ret' = Returned("document", doc)
    /\ pc' = "done"
    /\ UNCHANGED <<env, self, input, output>>

\* ----------------------------------------------- the runs that are checked
Chars(a, b, c, d) == <<a, b, c, d>>

PartitionTables ==
    {<<>>,
     <<[desc |-> Chars("F", "A", "T", "3"), start |-> 63]>>,
     <<[desc |-> Chars("F", "A", "T", "3"), start |-> 63],
       [desc |-> Chars("n", "t", "f", "s"), start |-> 2048]>>,
     <<[desc |-> Chars("0", "x", "0", "7"), start |-> 63],
       [desc |-> Chars("N", "T", "F", "S"), start |-> 4096]>>}

Images ==
    [openable : BOOLEAN, vol_ok : BOOLEAN, partitions : PartitionTables, mountable : BOOLEAN]

\* open_image gets as far as mounting the NTFS view
Mounts(image) ==
    /\ image.openable /\ image.vol_ok /\ image.mountable
    /\ \E i \in 1..Len(image.partitions) : MatchesNtfs(image.partitions[i].desc)

Absent == [exists |-> FALSE, entries |-> <<>>]
Listing(entries) == [exists |-> TRUE, entries |-> <<Entry("."), Entry("..")>> \o entries]

UsersDirs ==
    {Absent,
     Listing(<<Entry("alice"), Entry("Public")>>),
     Listing(<<Entry("Default"), Entry("bob"), EntryX("zoe")>>)}

DocsDirs ==
    {Absent, Listing(<<Entry("All Users"), Entry("Default User"), Entry("bob")>>)}

LogFile(name, ext, encodable) == [name |-> name, ext |-> ext, encodable |-> encodable]

EvtListings ==
    {<<>>,
     <<LogFile("SysEvent", ".Evt", TRUE), LogFile("Security", ".evtx", TRUE),
       LogFile("setup", ".log", TRUE)>>,
     <<LogFile("AppEvent", ".evt", TRUE), LogFile("Anwendung", ".evt", FALSE)>>}

Vols ==
    [docs : DocsDirs, users : UsersDirs,
     system_hive : {"ok", "corrupt", "missing"}, software_hive : {"ok", "corrupt"},
     evt_files : EvtListings, prefetch_times_ok : BOOLEAN,
     recycle : {"none", "xp", "vista"}]

\* the volume behind an image that never mounts is never read
BlankVol ==
    [docs |-> Absent, users |-> Absent, system_hive |-> "missing",
     software_hive |-> "corrupt", evt_files |-> <<>>, prefetch_times_ok |-> TRUE,
     recycle |-> "none"]

Hosts ==
    [stdout_unicode : BOOLEAN, tmp_fail : {{}, {"SYSTEM"}, {"NTUSER"}, {"sqlite"}},
     posix : {TRUE}, tz_secs : {0}]

OutputFiles ==
    {None, Some([path |-> "out.json", writable |-> TRUE]),
     Some([path |-> "nodir/out.json", writable |-> FALSE])}

NewExtractor ==
    [ewf_handle |-> NULL, img |-> NULL, ntfs_offset |-> None, fs |-> NULL,
     extractors |-> FALSE]

Idle == <<>>

Init ==
    /\ \E image \in Images, host \in Hosts, out \in OutputFiles :
         \E vol \in (IF Mounts(image) THEN Vols ELSE {BlankVol}) :
            env = [image |-> image, vol |-> vol, host |-> host, output_file |-> out]
    /\ self = NewExtractor
    /\ pc = "open_image"
    /\ locals = [user_profiles |-> <<>>, all_artifacts |-> NoArtifacts]
    /\ ret = Pending
    /\ files_out = {}
    /\ input = Idle
    /\ output = Idle

Next ==
    \/ OpenImage
    \/ Discover
    \/ ExtractBrowser
    \/ ExtractRegistry
    \/ ExtractRecycleBin
    \/ ExtractEventLogs
    \/ ExtractFilesystem
    \/ Finish

Spec == Init /\ [][Next]_vars

\* ------------------------------------------- one parser called on one file
\* the hosts a parser may run on: POSIX or Windows, a fixed local UTC offset
ParserHosts ==
    [stdout_unicode : {TRUE}, tmp_fail : {{}}, posix : BOOLEAN, tz_secs : {0, 19800}]

\* the caller is about to call the parser on `input`
Ready(inputs) ==
    /\ \E host \in ParserHosts : env = [host |-> host]
    /\ input \in inputs
    /\ pc = "call"
    /\ self = NewExtractor
    /\ locals = [user_profiles |-> <<>>, all_artifacts |-> NoArtifacts]
    /\ ret = Pending
    /\ files_out = {}
    /\ output = Idle

\* the parser returns `result`
Call(result) ==
    /\ pc = "call"
    /\ pc' = "returned"
    /\ output' = result
    /\ UNCHANGED <<env, self, locals, ret, files_out, input>>

\* ---- INFO2 files
MaxInfo2Records == 3
Info2Tails == {0, 1, 799}

\* what the k-th 800-byte record of a fixture holds
Info2Record(k, shape) ==
    CASE shape = "unicode" ->
           [name_ok |-> TRUE, name_unicode |-> <<67, 58, 92, 96 + k, 0, 0>>,
            name_ansi |-> <<67, 58, 92, 96 + k, 0>>, record_number |-> k,
            drive_number |-> 2, deletion_time |-> FT(EpochDays + 14000, 60 * k, 0),
            file_size |-> 100 + k]
      [] shape = "ansi" ->
           [name_ok |-> FALSE, name_unicode |-> <<>>, name_ansi |-> <<68, 58, 92, 64 + k, 0>>,
            record_number |-> k, drive_number |-> 30, deletion_time |-> FtZero,
            file_size |-> 0]
      [] OTHER ->
           [name_ok |-> TRUE, name_unicode |-> <<0, 0>>, name_ansi |-> <<0>>,
            record_number |-> 0, drive_number |-> 0, deletion_time |-> FtZero,
            file_size |-> 0]

Info2Shapes == {"unicode", "ansi", "zeroed"}

Info2File(shapes, tail) ==
    [readable |-> TRUE,
     size |-> Info2HeaderSize + Info2RecordSize * Len(shapes) + tail,
     recs |-> [k \in 1..Len(shapes) |-> Info2Record(k, shapes[k])]]

Info2Files ==
    {Info2File(shapes, tail) :
        shapes \in UNION {[1..n -> Info2Shapes] : n \in 0..MaxInfo2Records},
        tail \in Info2Tails}
    \cup {[readable |-> r, size |-> n, recs |-> <<>>] : r \in BOOLEAN, n \in {0, 19}}

InitInfo2 == Ready(Info2Files)
ParseInfo2 == Call(parse_info2_file(env.host, input))
SpecInfo2 == InitInfo2 /\ [][ParseInfo2]_vars

\* ---- $I / $R directories
MaxVistaEntries == 3

VistaName(prefix, id) == <<"$", prefix, id>>

InfoContent(shape) ==
    [readable |-> shape # "unreadable",
     size |-> IF shape = "short" THEN VistaHeaderSize - 1 ELSE VistaHeaderSize + 6,
     header_size |-> 2, deletion_time |-> FT(EpochDays + 15000, 7, 0),
     file_size |-> 4096, name_ok |-> shape # "badname", name |-> <<67, 58, 0>>]

VistaEntries ==
    {[name |-> VistaName("I", id), size |-> InfoContent(shape).size,
      content |-> InfoContent(shape)] :
        id \in {"a", "b"}, shape \in {"good", "short", "unreadable", "badname"}}
    \cup {[name |-> VistaName("R", id), size |-> 512, content |-> <<>>] : id \in {"a", "b"}}
    \cup {[name |-> <<"d", "e", "s", "k", "t", "o", "p">>, size |-> 129, content |-> <<>>]}

\* listings of a directory: no name occurs twice
VistaDirs ==
    {[path |-> <<"$Recycle.Bin", "S-1-5-21">>, exists |-> x, entries |-> es] :
        x \in BOOLEAN,
        es \in {e \in UNION {[1..n -> VistaEntries] : n \in 0..MaxVistaEntries} :
                   \A i, j \in 1..Len(e) : i # j => e[i].name # e[j].name}}

InitVista == Ready(VistaDirs)
ParseVista == Call(parse_recycle_bin_vista_plus(env.host, input))
SpecVista == InitVista /\ [][ParseVista]_vars

\* ---- legacy event-log files
MaxEvtRecords == 2
EvtPads == {0, 4, 5, 16, 508, 510, 512}
EvtRecordLengths == {56, 59, 64}
EvtTails == {0, 3, 9}
EvtFixtureHeader == 48

\* A fixture: `pad` filler bytes, a 48-byte header that starts with `sig`
\* ("" puts filler there too), nrecs records of reclen bytes that each start
\* with 'LfLe' and their length, and `tail` filler bytes.
EvtFixture(pad, sig, nrecs, reclen, tail) ==
    LET at == [k \in 1..nrecs |-> pad + EvtFixtureHeader + (k - 1) * reclen]
        starts == Range(at)
    IN  [pad |-> pad, sig |-> sig, nrecs |-> nrecs,
         file |->
           [readable |-> TRUE,
            size |-> pad + EvtFixtureHeader + nrecs * reclen + tail,
            tok |-> [o \in starts \cup (IF sig = "" THEN {} ELSE {pad}) |->
                        IF o \in starts THEN "LfLe" ELSE sig],
            u32 |-> [o \in {q + 4 : q \in starts} \cup {pad + 4} |->
                        IF o = pad + 4 THEN EvtFixtureHeader ELSE reclen],
            rec |-> [o \in starts |->
                        [record_number |-> CHOOSE k \in 1..nrecs : at[k] = o,
                         event_id |-> 528, strings |-> <<>>]]]]

EvtFixtures ==
    {EvtFixture(pad, sig, n, len, tail) :
        pad \in EvtPads, sig \in FileSignatures \cup {""}, n \in 0..MaxEvtRecords,
        len \in EvtRecordLengths, tail \in EvtTails}

InitEvt == Ready(EvtFixtures)
ParseEvt == Call(parse_evt_file(input.file))
SpecEvt == InitEvt /\ [][ParseEvt]_vars

\* ---- shell-link files
StringFlags == <<HasName, HasRelativePath, HasWorkingDir, HasArguments, HasIconLocation>>
StringKeys == <<"name", "relative_path", "working_directory", "arguments", "icon_location">>
\* the five strings a fixture stores: "N", ".\R", "WD", "/a", "I"
StoredStrings == <<<<78>>, <<46, 92, 82>>, <<87, 68>>, <<47, 97>>, <<73>>>>
LnkIdListSize == 6
LnkLinkInfoSize == 30

\* where the i-th string block of a link with these flags starts
RECURSIVE StringStart(_, _)
StringStart(flags, i) ==
    IF i = 1
    THEN LnkHeaderSize
         + (IF Bit(flags, HasLinkTargetIDList) THEN 2 + LnkIdListSize ELSE 0)
         + (IF Bit(flags, HasLinkInfo) THEN LnkLinkInfoSize ELSE 0)
    ELSE StringStart(flags, i - 1)
         + (IF Bit(flags, StringFlags[i - 1]) THEN 2 + 2 * Len(StoredStrings[i - 1]) ELSE 0)

\* a well-formed link: every structure its flags announce is stored, in the
\* order of the format, and nothing else
LnkFixture(flags) ==
    LET set == {i \in 1..5 : Bit(flags, StringFlags[i])}
        li == LnkHeaderSize + (IF Bit(flags, HasLinkTargetIDList) THEN 2 + LnkIdListSize ELSE 0)
    IN  [readable |-> TRUE, size |-> StringStart(flags, 6), sig_ok |-> TRUE,
         link_flags |-> flags, file_attributes |-> 32,
         creation_time |-> FT(EpochDays + 16000, 1, 0), access_time |-> FtZero,
         write_time |-> FT(EpochDays + 16000, 2, 0), file_size |-> 1024,
         icon_index |-> 0, show_command |-> 1,
         u16 |-> [o \in {StringStart(flags, i) : i \in set}
                        \cup (IF Bit(flags, HasLinkTargetIDList) THEN {LnkHeaderSize} ELSE {}) |->
                     IF o = LnkHeaderSize /\ Bit(flags, HasLinkTargetIDList) THEN LnkIdListSize
                     ELSE Len(StoredStrings[CHOOSE i \in set : StringStart(flags, i) = o])],
         u32 |-> [o \in (IF Bit(flags, HasLinkInfo) THEN {li} ELSE {}) |-> LnkLinkInfoSize],
         text |-> [o \in {StringStart(flags, i) + 2 : i \in set} |->
                     StoredStrings[CHOOSE i \in set : StringStart(flags, i) + 2 = o]],
         linkinfo |-> [o \in (IF Bit(flags, HasLinkInfo) THEN {li} ELSE {}) |->
                         [size |-> LnkLinkInfoSize, flags |-> 1, local_off |-> 28,
                          local_path |-> <<67>>, net_off |-> 0, net_path |-> <<>>]]]

LnkFixtures ==
    {LnkFixture(flags) : flags \in 0..127}
    \cup {[LnkFixture(32) EXCEPT !.sig_ok = FALSE], [LnkFixture(32) EXCEPT !.size = 75]}

InitLnk == Ready(LnkFixtures)
ParseLnk == Call(_parse_link_file(env.host, input, <<"a", ".", "l", "n", "k">>))
SpecLnk == InitLnk /\ [][ParseLnk]_vars

\* ---- FILETIME values
FiletimeDays == {0, EpochDays - 1, EpochDays, EpochDays + 1, EpochDays + MaxUnixDay + 1}
FiletimeSeconds == {0, SecondsPerDay - 1}
FiletimeTicks == {0, 1, 5, 15, TicksPerSecond - 5}

Filetimes ==
    {FT(d, sec, k) : d \in FiletimeDays, sec \in FiletimeSeconds, k \in FiletimeTicks}

\* two 64-bit fields of one record, converted by the same inline code
InitFiletime == Ready([a : Filetimes, b : Filetimes])
ConvertFiletime ==
    Call([a |-> FileTimeToIso(env.host, input.a), b |-> FileTimeToIso(env.host, input.b)])
SpecFiletime == InitFiletime /\ [][ConvertFiletime]_vars

\* ---- UserAssist keys
MaxNameLen == 3
\* A N Z a z . \ and e-acute
NameAlphabet == {65, 78, 90, 97, 122, 46, 92, 233}

ValueNames == UNION {[1..n -> NameAlphabet] : n \in 1..MaxNameLen}

CountData ==
    {[kind |-> "bytes", size |-> n, run_count |-> 3,
      last_run_xp |-> FT(EpochDays + 13000, 5, 0),
      last_run_win7 |-> FT(EpochDays + 17000, 6, 0)] : n \in {8, 16, 72}}

\* a loaded NTUSER.DAT whose UserAssist key has one GUID with one value
UserAssistHives ==
    {[has_userassist |-> TRUE,
      guids |-> <<[name |-> "{75048700}", has_count |-> TRUE,
                   values |-> <<[name |-> x, data |-> d]>>]>>] :
        x \in ValueNames, d \in CountData}

InitUserAssist == Ready(UserAssistHives)
ParseUserAssist == Call(extract_userassist(env.host, input))
SpecUserAssist == InitUserAssist /\ [][ParseUserAssist]_vars

\* ======================================================= properties: Spec
\* C1: when the image cannot be opened, no partition descriptor matches NTFS
\* or the filesystem cannot be mounted, extract_all_artifacts returns None:
\* no parser is created or run, no summary is built, no file is written.
C1_FatalOpenReturnsNothing ==
    ~Mounts(env.image) =>
        /\ locals.all_artifacts = NoArtifacts
        /\ ~self.extractors
        /\ self.fs = NULL
        /\ files_out = {}
        /\ pc \in {"open_image", "done"}
        /\ (pc = "done" => ret.kind = NULL)

\* an image with a readable partition table and no NTFS partition has been
\* given up on
C1_Witness ==
    /\ pc = "done"
    /\ env.image.openable /\ env.image.vol_ok /\ env.image.mountable
    /\ env.image.partitions # <<>>
    /\ ~Mounts(env.image)
    /\ ret.kind = NULL

\* C2: after a successful mount a failure inside a parser category is
\* contained: the run ends by returning a document, never with an exception
\* that crossed extract_all_artifacts.
C2_CategoryFailureContained ==
    (pc = "done" /\ Mounts(env.image) /\ ProfilesPrintable(env.host, env.vol)) =>
        /\ ret.kind = "document"
        /\ Categories \subseteq DOMAIN ret.value

\* the volume of the run with a readable SYSTEM hive in place of a corrupt one
HealthyVol == [env.vol EXCEPT !.system_hive = "ok"]

SystemHiveKeys == {"usb_history", "timezone_info", "network_info"}

C8_ProfilesAreTheUserEntries ==
    (self.fs = "mounted" /\ pc \notin {"open_image", "discover"}) =>
        LET keep(e) == e.name \notin {".", "..", "All Users", "Default", "Default User", "Public"}
            paths(base, d) ==
                IF d.exists
                THEN [i \in 1..Len(SelectSeq(d.entries, keep)) |->
                         <<base, SelectSeq(d.entries, keep)[i].name>>]
                ELSE <<>>
        IN  /\ locals.user_profiles
                 = paths("Documents and Settings", env.vol.docs) \o paths("Users", env.vol.users)
            /\ (~env.vol.docs.exists /\ env.vol.users.exists
                /\ Range(env.vol.users.entries) = {Entry("."), Entry(".."), Entry("alice"), Entry("Public")}
                => locals.user_profiles = <<<<"Users", "alice">>>>)

\* /Users holds alice and Public, /Documents and Settings does not exist
C8_Witness ==
    /\ pc = "browser"
    /\ ~env.vol.docs.exists
    /\ \E i \in 1..Len(env.vol.users.entries) : env.vol.users.entries[i].name = "Public"
    /\ locals.user_profiles = <<<<"Users", "alice">>>>

\* =================================================== properties: parsers
\* C4: an INFO2 file of the 20-byte header, N 800-byte records and a tail of
\* fewer than 800 bytes gives exactly N records in file order, the k-th
\* decoded from the k-th 800-byte block whatever the earlier blocks held.
C4_Info2OneRecordPerBlock ==
    (pc = "returned" /\ input.readable /\ input.size >= Info2HeaderSize) =>
        LET n == (input.size - Info2HeaderSize) \div Info2RecordSize
        IN  /\ n = Len(input.recs)
            /\ Len(output) = n
            /\ \A k \in 1..n :
                 /\ output[k].record_number = input.recs[k].record_number
                 /\ output[k].file_size = input.recs[k].file_size
                 /\ output[k].drive_number = input.recs[k].drive_number
                 /\ output[k].original_filename
                      = RStripNul(IF input.recs[k].name_ok /\ input.recs[k].name_unicode[1] # 0
                                  THEN input.recs[k].name_unicode ELSE input.recs[k].name_ansi)

\* three records, the first one zeroed, and 799 bytes of a fourth
C4_Witness ==
    /\ pc = "returned"
    /\ Len(input.recs) = 3
    /\ input.size = Info2HeaderSize + 3 * Info2RecordSize + 799
    /\ input.recs[1].record_number = 0
    /\ Len(output) = 3
    /\ output[3].record_number = 3

\* the offsets below 512 at which a file holds one of the two signatures
SignatureOffsets(file) ==
    {o \in DOMAIN file.tok : o < EvtScanLimit /\ file.tok[o] \in FileSignatures}

\* C5: a file that does not start with a signature but holds one at an
\* offset below 512 has every well-formed record after it decoded; a file
\* with no signature in its first 512 bytes yields no events.
C5_ShiftedSignatureIsFound ==
    (pc = "returned" /\ input.pad > 0) =>
        /\ (input.sig # "" /\ input.pad < EvtScanLimit =>
               /\ Len(output) = input.nrecs
               /\ \A k \in 1..Len(output) : output[k].record_number = k)
        /\ (SignatureOffsets(input.file) = {} => output = <<>>)

\* what a consumer reads for a key of a returned dict: "" when it is absent
Read(d, key) == Get(d, key, <<>>)

\* C6: each of the five string fields of a link is read, in the fixed order,
\* exactly when its flag is set: the returned record holds the stored string
\* for a set flag and an empty one otherwise.
C6_StringFieldsFollowFlags ==
    (pc = "returned" /\ input.sig_ok /\ input.size >= LnkHeaderSize) =>
        /\ output # None
        /\ \A i \in 1..5 :
             Read(output[1], StringKeys[i])
               = IF Bit(input.link_flags, StringFlags[i]) THEN StoredStrings[i] ELSE <<>>

IsInfoFile(e) ==
    /\ e.name[1] = "$" /\ e.name[2] = "I"
    /\ e.content.readable /\ e.content.size >= VistaHeaderSize

InstantAtMost(x, y) ==
    \/ x.day < y.day
    \/ x.day = y.day /\ x.sec < y.sec
    \/ x.day = y.day /\ x.sec = y.sec /\ x.micro <= y.micro

\* the FILETIME an instant printed on `host` stands for
TicksOf(host, inst) ==
    LET utc == Instant(inst.day + EpochDays - 1, inst.sec - host.tz_secs + SecondsPerDay, 0)
    IN  FT(utc.day, utc.sec, inst.micro * TicksPerMicro)

\* C9: for t >= 116444736000000000 the conversion is monotonic and the
\* instant gives back the same 100 ns tick; t = 0 and every t below
\* 116444736000000000 convert to null.
C9_FiletimeConversion ==
    pc = "returned" =>
        /\ (~FtAtLeastEpoch(input.a) => output.a = None)
        /\ (FtAtLeastEpoch(input.a) /\ output.a # None
              => TicksOf(env.host, output.a[1]) = input.a)
        /\ (FtAtLeastEpoch(input.a) /\ FtLess(input.a, input.b)
            /\ output.a # None /\ output.b # None
              => InstantAtMost(output.a[1], output.b[1]))

\* C10: the ROT13 decoding of a UserAssist value name is its own inverse,
\* never raises, and the entry of a value with at least 16 bytes of data is
\* emitted with the decoded name: letters moved by 13 places, every other
\* character kept.
C10_Rot13IsAnInvolution ==
    pc = "returned" =>
        LET v == input.guids[1].values[1]
            letter(c) == (c >= 65 /\ c <= 90) \/ (c >= 97 /\ c <= 122)
        IN  /\ Rot13(Rot13(v.name)) = v.name
            /\ (v.data.size >= UserAssistMinData =>
                  /\ Len(output) = 1
                  /\ Rot13(output[1].program) = v.name
                  /\ Len(output[1].program) = Len(v.name)
                  /\ \A i \in 1..Len(v.name) :
                       IF letter(v.name[i])
                       THEN /\ letter(output[1].program[i])
                            /\ output[1].program[i] - v.name[i] \in {13, -13}
                       ELSE output[1].program[i] = v.name[i])

\* the entry for the value named ".éN" (not a ROT13 text) is "é" kept
\* and N read as A
C10_Witness ==
    /\ pc = "returned"
    /\ input.guids[1].values[1].name = <<46, 233, 78>>
    /\ Len(output) = 1
    /\ output[1].program = <<46, 233, 65>>

\* ============================================ browser history timestamps
\* The value of a record field that holds a time: Python None, an int (the
\* count the database stores) or a str (the isoformat text of an instant).
PyNone == [type |-> "NoneType"]
PyInt(v) == [type |-> "int", value |-> v]
PyStr(v) == [type |-> "str", value |-> v]

\* A stored count of microseconds is [days, secs, micros]; a column value
\* is None (SQL NULL) or Some(count).
Micros(d, s, u) == [days |-> d, secs |-> s, micros |-> u]

\* "if value:" on a column value
Truthy(col) ==
    col # None /\ (col[1].days # 0 \/ col[1].secs # 0 \/ col[1].micros # 0)

\* A database file is [readable, valid, rows]: rows is what the SELECT on
\* the history table returns, in its order; sqlite raises for a file that
\* is not valid.
\* datetime(1601, 1, 1) + timedelta(microseconds=v) raises OverflowError
\* beyond year 9999; the exception leaves the loop over the rows.
RECURSIVE ChromiumRows(_, _)
ChromiumRows(browser_name, rows) ==
    IF rows = <<>> THEN <<>>
    ELSE LET v == Head(rows).time
             day == v[1].days - EpochDays
         IN  IF Truthy(v) /\ day > MaxUnixDay THEN <<>>
             ELSE <<[source |-> browser_name, url |-> Head(rows).url,
                     last_visit |->
                        IF Truthy(v)
                        THEN PyStr([day |-> day, sec |-> v[1].secs, micro |-> v[1].micros])
                        ELSE PyNone]>>
                  \o ChromiumRows(browser_name, Tail(rows))

\* BrowserArtifacts._extract_chromium_history
_extract_chromium_history(db, browser_name) ==
    IF ~db.readable \/ ~db.valid THEN <<>> ELSE ChromiumRows(browser_name, db.rows)

\* the rows of moz_places WHERE last_visit_date IS NOT NULL
RECURSIVE NotNull(_)
NotNull(rows) ==
    IF rows = <<>> THEN <<>>
    ELSE (IF Head(rows).time # None THEN <<Head(rows)>> ELSE <<>>) \o NotNull(Tail(rows))

\* datetime.fromtimestamp(last_visit / 1000000): local time, an exception
\* (year beyond 9999, a negative value on Windows) leaves the loop
RECURSIVE FirefoxRows(_, _)
FirefoxRows(host, rows) ==
    IF rows = <<>> THEN <<>>
    ELSE LET v == Head(rows).time
             day == v[1].days
             local == Instant(day - 1, v[1].secs + host.tz_secs + SecondsPerDay, v[1].micros)
         IN  IF Truthy(v) /\ (local.day > MaxUnixDay \/ (day < 0 /\ ~host.posix)) THEN <<>>
             ELSE <<[source |-> "firefox", url |-> Head(rows).url,
                     last_visit |-> IF Truthy(v) THEN PyStr(local) ELSE PyNone]>>
                  \o FirefoxRows(host, Tail(rows))

\* BrowserArtifacts._extract_firefox_history
_extract_firefox_history(host, db) ==
    IF ~db.readable \/ ~db.valid THEN <<>> ELSE FirefoxRows(host, NotNull(db.rows))

\* the column value as sqlite3 hands it over
Column(col) == IF col = None THEN PyNone ELSE PyInt(col[1])

\* artifacts.py: results.append({"path": p, "url": url, "title": title,
\* "last_visit_time": ts}) for every row of every database that can be read
RECURSIVE extract_chrome_edge_history(_)
extract_chrome_edge_history(dbs) ==
    IF dbs = <<>> THEN <<>>
    ELSE LET db == Head(dbs).db
         IN  (IF ~db.readable \/ ~db.valid THEN <<>>
              ELSE [i \in 1..Len(db.rows) |->
                      [path |-> Head(dbs).path, url |-> db.rows[i].url,
                       last_visit_time |-> Column(db.rows[i].time)]])
             \o extract_chrome_edge_history(Tail(dbs))

\* artifacts.py: the same for places.sqlite of one Firefox profile folder
extract_firefox_history(db) ==
    IF ~db.readable \/ ~db.valid THEN <<>>
    ELSE [i \in 1..Len(db.rows) |->
            [path |-> "places.sqlite", url |-> db.rows[i].url,
             last_visit_date |-> Column(db.rows[i].time)]]

\* ---- history databases
MaxHistoryRows == 1

\* NULL, 0, 2008-ish in WebKit and in Unix microseconds, beyond year 9999
StoredTimes ==
    {None, Some(Micros(0, 0, 0)), Some(Micros(EpochDays + 14000, 3600, 250000)),
     Some(Micros(14000, 3600, 250000)), Some(Micros(EpochDays + MaxUnixDay + 1, 0, 1))}

HistoryDbs ==
    {[readable |-> r, valid |-> v, rows |-> <<>>] : r \in BOOLEAN, v \in BOOLEAN}
    \cup {[readable |-> TRUE, valid |-> TRUE, rows |-> rows] :
            rows \in UNION {[1..n -> [url : {"u"}, time : StoredTimes]] :
                               n \in 1..MaxHistoryRows}}

InitHistory == Ready([chrome : HistoryDbs, edge : HistoryDbs, places : HistoryDbs])

ChromiumHistory ==
    Call(_extract_chromium_history(input.chrome, "chrome")
         \o _extract_chromium_history(input.edge, "edge"))

FirefoxHistory == Call(_extract_firefox_history(env.host, input.places))

ChromeEdgeHistory ==
    Call(extract_chrome_edge_history(<<[path |-> "Chrome", db |-> input.chrome],
                                       [path |-> "Edge", db |-> input.edge]>>))

FirefoxPlacesHistory == Call(extract_firefox_history(input.places))

SpecHistory ==
    InitHistory
    /\ [][ChromiumHistory \/ FirefoxHistory \/ ChromeEdgeHistory \/ FirefoxPlacesHistory]_vars

\* the keys under which the history extractors store a time
TimestampKeys == {"last_visit", "last_visit_time", "last_visit_date"}

\* C11: every timestamp field of every emitted record is an ISO-8601 text or
\* null, never the tick count the platform stores.
C11_TimestampsAreIsoOrNull ==
    pc = "returned" =>
        \A i \in 1..Len(output) :
            \A k \in DOMAIN output[i] \cap TimestampKeys :
                output[i][k].type \in {"str", "NoneType"}

\* the same for the records of the BrowserArtifacts parsers alone
BrowserParserTimestampsAreIsoOrNull ==
    pc = "returned" =>
        \A i \in 1..Len(output) :
            "last_visit" \in DOMAIN output[i] =>
                output[i].last_visit.type \in {"str", "NoneType"}

\* ================================================== the NTFS partition
\* artifacts.py, extract_artifacts_from_image: the loop over the partitions
\* assigns ntfs_offset at every match and has no break
RECURSIVE NtfsOffsetAfter(_, _, _)
NtfsOffsetAfter(parts, i, ntfs_offset) ==
    IF i > Len(parts) THEN ntfs_offset
    ELSE NtfsOffsetAfter(parts, i + 1,
                         IF MatchesNtfs(parts[i].desc) THEN Some(parts[i].start * SectorSize)
                         ELSE ntfs_offset)

\* extract_artifacts_from_image up to the mount: the offset handed to
\* FS_Info, RuntimeError when the table cannot be read or nothing matches
extract_artifacts_from_image(image) ==
    IF ~image.vol_ok THEN Raised
    ELSE LET ntfs_offset == NtfsOffsetAfter(image.partitions, 1, None)
         IN  IF ntfs_offset = None THEN Raised ELSE Ok(ntfs_offset)

\* ---- partition tables
MaxPartitions == 3

PartitionDescs ==
    {<<"F", "A", "T", "3", "2">>, <<"N", "T", "F", "S">>,
     <<"n", "t", "f", "s", " ", "(", "0", "x", "0", "7", ")">>, <<"0", "x", "0", "7">>}

\* the k-th partition of a table starts at sector 63 + 2048 (k - 1)
TablesOf(n) ==
    {[k \in 1..n |-> [desc |-> descs[k], start |-> 63 + 2048 * (k - 1)]] :
        descs \in [1..n -> PartitionDescs]}

InitPartition ==
    Ready([vol_ok : BOOLEAN, partitions : UNION {TablesOf(n) : n \in 0..MaxPartitions}])

FindNtfsPartition == Call(Ok(_find_ntfs_partition(input, None)))

ExtractFromImage == Call(extract_artifacts_from_image(input))

SpecPartition == InitPartition /\ [][FindNtfsPartition \/ ExtractFromImage]_vars

\* the positions of the partitions whose descriptor matches NTFS
NtfsMatches(parts) == {i \in 1..Len(parts) : MatchesNtfs(parts[i].desc)}

\* C12: with one or several matching partitions both orchestrators mount
\* the first match in partition-table order, at its start sector times 512.
C12_FirstNtfsMatchIsSelected ==
    (pc = "returned" /\ input.vol_ok /\ NtfsMatches(input.partitions) # {}) =>
        LET first == CHOOSE i \in NtfsMatches(input.partitions) :
                        \A j \in NtfsMatches(input.partitions) : i <= j
        IN  /\ ~output.raised
            /\ output.value = Some(input.partitions[first].start * SectorSize)

\* the same whenever the first match is also the last one
OnlyMatchIsSelected ==
    (pc = "returned" /\ input.vol_ok /\ Cardinality(NtfsMatches(input.partitions)) = 1) =>
        LET only == CHOOSE i \in NtfsMatches(input.partitions) : TRUE
        IN  output = Ok(Some(input.partitions[only].start * SectorSize))

\* ================================================ properties: the summary
\* len(d[key]) for a list the dict d holds, 0 for a key it lacks
Held(d, key) == IF key \in DOMAIN d THEN Len(d[key]) ELSE 0

\* the records of one kind a document holds over the three browser families
BrowserRecords(doc, key) ==
    LET b == doc.browser_artifacts
    IN  Held(b.firefox, key) + Held(b.chrome_edge, key) + Held(b.internet_explorer, key)

\* C13: in every returned document each total_* count of the summary is the
\* number of records of that category present in the same document, so a
\* category that is not empty is never counted as 0.
C13_SummaryCountsMatchDocument ==
    (pc = "done" /\ ret.kind = "document") =>
        LET doc == ret.value
            s == doc.summary
        IN  /\ s.total_browser_history = BrowserRecords(doc, "history")
            /\ s.total_browser_cookies = BrowserRecords(doc, "cookies")
            /\ s.total_browser_downloads = BrowserRecords(doc, "downloads")
            /\ s.total_usb_devices = Held(doc.registry_artifacts, "usb_history")
            /\ s.total_userassist_entries = Held(doc.registry_artifacts, "userassist")
            /\ s.total_installed_programs = Held(doc.registry_artifacts, "installed_programs")
            /\ s.total_run_keys = Held(doc.registry_artifacts, "run_keys")
            /\ s.total_deleted_files = Held(doc.recycle_bin_artifacts, "deleted_files")
            /\ s.total_event_log_entries = Held(doc.event_log_artifacts, "all_events")
            /\ s.total_prefetch_files = Held(doc.filesystem_artifacts, "prefetch_files")
            /\ s.total_link_files = Held(doc.filesystem_artifacts, "link_files")

\* a document with Internet Explorer history beside Firefox and Chrome
\* history, deleted files and events has been returned with its counts
C13_Witness ==
    /\ pc = "done"
    /\ ret.kind = "document"
    /\ ret.value.browser_artifacts.internet_explorer.history # <<>>
    /\ ret.value.browser_artifacts.firefox.history # <<>>
    /\ ret.value.summary.total_browser_history >= 3
    /\ ret.value.summary.total_deleted_files > 0
    /\ ret.value.summary.total_event_log_entries > 0
    /\ ret.value.summary.total_link_files > 0

\* ================================ forensic_extractor.py: the whole run
\* close() that releases the handle only when the filesystem was mounted
close_mounted(obj) ==
    IF obj.ewf_handle = "open" /\ obj.fs = "mounted"
    THEN [obj EXCEPT !.ewf_handle = "closed"] ELSE obj

\* ForensicExtractor.close: "if self.ewf_handle: self.ewf_handle.close()".
\* Closing a handle whose open() had failed raises; the exception is caught
\* and the handle stays as it was, never opened.
close(obj) ==
    IF obj.ewf_handle = "open" THEN [obj EXCEPT !.ewf_handle = "closed"] ELSE obj

\* The driver of a run: "try: extractor.extract_all_artifacts(output_file)
\* except Exception: print(...) finally: extractor.close()".  The finally
\* clause runs after a returned document, after None and after an exception.
Close ==
    /\ pc = "done"
    /\ pc' = "closed"
    /\ self' = close(self)
    /\ UNCHANGED <<env, locals, ret, files_out, input, output>>

RunNext == Next \/ Close

\* The runs of the driver that are checked: every image, host and profile
\* listing of Init, on volumes whose hives and prefetch entries are sound
\* and with no output file, which leaves runs of every ending: a document,
\* None, and an exception out of Discover or out of a category.
RunInit ==
    /\ Init
    /\ env.output_file = None
    /\ \/ env.vol = BlankVol
       \/ /\ env.vol.system_hive = "ok" /\ env.vol.software_hive = "ok"
          /\ env.vol.prefetch_times_ok

\* The driver is one sequential program: a step that can be taken is taken.
SpecRun == RunInit /\ [][RunNext]_vars /\ WF_vars(RunNext)

\* the position of the run in Unopened -> Mounted -> ProfilesDiscovered ->
\* parsing -> Aggregated -> Closed
Stage(at) ==
    CASE at = "open_image" -> 0 [] at = "discover" -> 1 [] at = "browser" -> 2
      [] at = "registry" -> 3 [] at = "recycle_bin" -> 4 [] at = "event_log" -> 5
      [] at = "filesystem" -> 6 [] at = "summary" -> 7 [] at = "done" -> 8
      [] OTHER -> 9

\* the next step of the run reads the image through the mounted filesystem
ReadsImage ==
    pc \in {"discover", "browser", "registry", "recycle_bin", "event_log", "filesystem"}

\* C14: a run goes forward through Unopened, Mounted, ProfilesDiscovered,
\* parsing, Aggregated and Closed; the image is opened at most once, from
\* Unopened; every step that reads the image finds it open; and every run,
\* whether it returns a document, gives up on the image or raises, ends
\* with the handle closed if it was ever opened and takes no step after.
C14_OpenedOnceClosedAtEnd ==
    /\ [](ReadsImage => self.ewf_handle = "open" /\ self.fs = "mounted")
    /\ [][Stage(pc') > Stage(pc)]_vars
    /\ [][(self'.ewf_handle = "open" /\ self.ewf_handle # "open")
             => (pc = "open_image" /\ self.ewf_handle = NULL)]_vars
    /\ [][self.ewf_handle # "closed"]_vars
    /\ <>[](pc = "closed" /\ self.ewf_handle # "open")

\* a run that opened the image and gave up on it (no NTFS partition, or no
\* mountable filesystem) has ended with the handle closed
C14_Witness ==
    /\ pc = "closed"
    /\ self.ewf_handle = "closed"
    /\ self.fs = NULL
    /\ ret.kind = NULL

\* ===================================== EWFImgInfo.read from two threads
\* The handle of an image keeps one current position.  A call of
\* EWFImgInfo.read(offset, size) is two calls on the handle,
\* "self._ewf_handle.seek(offset)" and "return self._ewf_handle.read(size)";
\* no lock is held over the two, so steps of other threads may come between.
ReaderThreads == {"t1", "t2"}
MaxReadSize == 2
ImageBytes == <<170, 187, 204>>

\* the bytes of the image from position at, at most size of them
BytesAt(at, size) == SubSeq(ImageBytes, at + 1, Min2(at + size, Len(ImageBytes)))

NoRead == [called |-> FALSE, offset |-> 0, size |-> 0, data |-> <<>>]

InitRead ==
    /\ env = [media_size |-> Len(ImageBytes)]
    /\ self = [position |-> 0]
    /\ pc = [t \in ReaderThreads |-> "idle"]
    /\ locals = [t \in ReaderThreads |-> [offset |-> 0, size |-> 0]]
    /\ ret = [t \in ReaderThreads |-> NoRead]
    /\ files_out = {}
    /\ input = Idle
    /\ output = Idle

\* a parser thread enters read(offset, size)
EnterRead(t) ==
    /\ pc[t] = "idle"
    /\ \E offset \in 0..(Len(ImageBytes) - 1), size \in 1..MaxReadSize :
          locals' = [locals EXCEPT ![t] = [offset |-> offset, size |-> size]]
    /\ pc' = [pc EXCEPT ![t] = "seek"]
    /\ UNCHANGED <<env, self, ret, files_out, input, output>>

\* self._ewf_handle.seek(offset)
Seek(t) ==
    /\ pc[t] = "seek"
    /\ self' = [self EXCEPT !.position = locals[t].offset]
    /\ pc' = [pc EXCEPT ![t] = "read"]
    /\ UNCHANGED <<env, locals, ret, files_out, input, output>>

\* return self._ewf_handle.read(size): the bytes at the handle's current
\* position, which moves past them
ReadBuffer(t) ==
    /\ pc[t] = "read"
    /\ LET data == BytesAt(self.position, locals[t].size)
       IN  /\ ret' = [ret EXCEPT ![t] = [called |-> TRUE, offset |-> locals[t].offset,
                                         size |-> locals[t].size, data |-> data]]
           /\ self' = [self EXCEPT !.position = @ + Len(data)]
    /\ pc' = [pc EXCEPT ![t] = "idle"]
    /\ UNCHANGED <<env, locals, files_out, input, output>>

ReadNext == \E t \in ReaderThreads : EnterRead(t) \/ Seek(t) \/ ReadBuffer(t)

SpecRead == InitRead /\ [][ReadNext]_vars

\* C15: every call of read(offset, size) returns the bytes of the image
\* that lie at its own offset, whatever the other thread does meanwhile.
C15_ReadReturnsOwnOffset ==
    \A t \in ReaderThreads :
        ret[t].called => ret[t].data = BytesAt(ret[t].offset, ret[t].size)

\* the same while the other thread stays outside read
ReadAloneReturnsOwnOffset ==
    \A t \in ReaderThreads :
        (ret[t].called /\ \A u \in ReaderThreads \ {t} : ~ret[u].called /\ pc[u] = "idle")
            => ret[t].data = BytesAt(ret[t].offset, ret[t].size)

\* ======================================= the scan loops, step by step
\* The while loops of parse_evt_file and _parse_index_dat, one iteration per
\* step: locals is [base, offset, events], base the offset raw_data was cut
\* at, and pc tells which loop is running.

\* the length test that accepts every length of at least a header
EvtBadLengthShortOnly(record_length, offset, len) == record_length < EvtRecordHeader

\* "if record_length < 56 or offset + record_length > len(raw_data)"
EvtBadLength(record_length, offset, len) ==
    record_length < EvtRecordHeader \/ offset + record_length > len

\* datetime.fromtimestamp(time_generated) inside the try of
\* _parse_evt_record: on Windows it raises OSError for a time_t within the
\* first day after the epoch, on POSIX for no 32-bit unsigned value
EvtDecodeRaises(host, r) ==
    ~host.posix /\ Get(r, "time_generated", 0) > 0
    /\ Get(r, "time_generated", 0) < SecondsPerDay

\* event = self._parse_evt_record(record_data): None when its try caught an
\* exception
EvtEvent(host, r) ==
    IF EvtDecodeRaises(host, r) THEN None ELSE Some(_parse_evt_record(r))

\* the record stored at an offset of the file, filler where none starts
EvtRecordIn(file, at) == IF at \in DOMAIN file.rec THEN file.rec[at] ELSE EvtFiller

\* one iteration of "while offset < len(raw_data) - 8": the new offset and
\* the events appended.  No statement of the body raises, so the handler
\* "except Exception: offset += 1" of the loop is never entered.
EvtStep(host, file, base, offset) ==
    LET len == file.size - base
        at == base + offset
        record_length == U32At(file, at + 4)
    IN  IF Bytes4(file, at) # "LfLe" THEN [offset |-> offset + 1, events |-> <<>>]
        ELSE IF EvtBadLength(record_length, offset, len)
        THEN [offset |-> offset + EvtBadLengthSkip, events |-> <<>>]
        ELSE [offset |-> offset + record_length,
              events |-> EvtEvent(host, EvtRecordIn(file, at))]

IndexDatMinRecord == 64
IndexDatMaxRecord == 8192
IndexDatStride == 4

\* the size test without the bound by the bytes that remain
IndexDatBadSizeUnbounded(record_size, offset, len) ==
    record_size < IndexDatMinRecord \/ record_size > IndexDatMaxRecord

\* "if record_size < 64 or record_size > len(data) - offset or
\* record_size > 8192"
IndexDatBadSize(record_size, offset, len) ==
    \/ record_size < IndexDatMinRecord
    \/ record_size > len - offset
    \/ record_size > IndexDatMaxRecord

\* one iteration of "while offset < len(data) - 64" of _parse_index_dat.
\* The URL of an accepted record falls back to a placeholder text, so an
\* entry is appended for every accepted record.
IndexDatStep(file, offset) ==
    LET record_size == U32At(file, offset + 4)
    IN  IF Bytes4(file, offset) # "URL " THEN [offset |-> offset + IndexDatStride, events |-> <<>>]
        ELSE IF IndexDatBadSize(record_size, offset, file.size)
        THEN [offset |-> offset + IndexDatStride, events |-> <<>>]
        ELSE [offset |-> offset + record_size,
              events |-> <<[source |-> "internet_explorer", record_size |-> record_size,
                            url |-> IF offset \in DOMAIN file.rec THEN file.rec[offset].url
                                    ELSE "[Partial URL data]"]>>]

\* ---- files made of record slots
MaxScanSlots == 3

\* A slot is a stretch of a file: "good" a well-formed record, "short" a
\* record that declares 8 bytes, "long" one that declares 4096 bytes, more
\* than any fixture holds, "early" a well-formed record whose time_generated
\* is 1, "junk" bytes without a signature.
ScanSlots == {"good", "short", "long", "early", "junk"}

\* the bytes a slot occupies and the length it declares
SlotBytes(kind, slot) ==
    CASE slot \in {"good", "early"} -> IF kind = "evt" THEN 60 ELSE 64
      [] slot = "short" -> 12
      [] slot = "long" -> 16
      [] OTHER -> IF kind = "evt" THEN 5 ELSE 4

SlotDeclares(kind, slot) ==
    CASE slot = "short" -> 8 [] slot = "long" -> 4096 [] OTHER -> SlotBytes(kind, slot)

RECURSIVE SlotStart(_, _, _)
SlotStart(kind, slots, k) ==
    IF k = 1 THEN (IF kind = "evt" THEN EvtFixtureHeader ELSE 0)
    ELSE SlotStart(kind, slots, k - 1) + SlotBytes(kind, slots[k - 1])

\* An event log is a 48-byte header followed by the slots, an index.dat the
\* slots followed by 64 bytes of filler.
ScanFixture(kind, slots) ==
    LET recs == {k \in 1..Len(slots) : slots[k] # "junk"}
        at == [k \in 1..Len(slots) |-> SlotStart(kind, slots, k)]
        sig == IF kind = "evt" THEN "LfLe" ELSE "URL "
        slot_at(o) == CHOOSE k \in recs : at[k] = o
    IN  [kind |-> kind, slots |-> slots, starts |-> at,
         file |->
           [readable |-> TRUE,
            size |-> SlotStart(kind, slots, Len(slots) + 1)
                     + (IF kind = "evt" THEN 0 ELSE IndexDatMinRecord),
            tok |-> [o \in {at[k] : k \in recs} \cup (IF kind = "evt" THEN {0} ELSE {}) |->
                       sig],
            u32 |-> [o \in {at[k] + 4 : k \in recs} \cup (IF kind = "evt" THEN {4} ELSE {}) |->
                       IF kind = "evt" /\ o = 4 THEN EvtFixtureHeader
                       ELSE SlotDeclares(kind, slots[slot_at(o - 4)])],
            rec |-> [o \in {at[k] : k \in recs} |->
                       [record_number |-> slot_at(o), event_id |-> 528, strings |-> <<>>,
                        time_generated |-> IF slots[slot_at(o)] = "early" THEN 1
                                           ELSE 1209603600,
                        url |-> "http://example.org/"]]]]

ScanFixtures ==
    {ScanFixture(kind, slots) :
        kind \in {"evt", "index_dat"},
        slots \in UNION {[1..n -> ScanSlots] : n \in 0..MaxScanSlots}}

InitScan ==
    /\ \E posix \in BOOLEAN :
          env = [host |-> [stdout_unicode |-> TRUE, tmp_fail |-> {}, posix |-> posix,
                           tz_secs |-> 0]]
    /\ input \in ScanFixtures
    /\ pc = "call"
    /\ self = NewExtractor
    /\ locals = [base |-> 0, offset |-> 0, events |-> <<>>]
    /\ ret = Pending
    /\ files_out = {}
    /\ output = Idle

\* parse_evt_file up to "offset = header_size"
StartEvt ==
    /\ pc = "call" /\ input.kind = "evt"
    /\ LET file == input.file
           base == IF Bytes4(file, 0) \in FileSignatures THEN 0 ELSE ScanSignature(file, 0)
       IN  IF ~file.readable \/ file.size < EvtMinFile \/ base < 0
              \/ file.size - base < EvtHeaderRead
           THEN pc' = "returned" /\ output' = <<>> /\ locals' = locals
           ELSE /\ pc' = "evt_loop"
                /\ output' = output
                /\ locals' = [base |-> base, offset |-> U32At(file, base + 4), events |-> <<>>]
    /\ UNCHANGED <<env, self, ret, files_out, input>>

\* one pass through the body of the while loop of parse_evt_file
IterateEvt ==
    /\ pc = "evt_loop"
    /\ locals.offset < input.file.size - locals.base - 8
    /\ LET step == EvtStep(env.host, input.file, locals.base, locals.offset)
       IN  locals' = [locals EXCEPT !.offset = step.offset, !.events = @ \o step.events]
    /\ UNCHANGED <<env, self, pc, ret, files_out, input, output>>

\* the loop condition fails: return events
ReturnEvt ==
    /\ pc = "evt_loop"
    /\ ~(locals.offset < input.file.size - locals.base - 8)
    /\ pc' = "returned"
    /\ output' = locals.events
    /\ UNCHANGED <<env, self, locals, ret, files_out, input>>

\* _parse_index_dat up to "offset = 0"
StartIndexDat ==
    /\ pc = "call" /\ input.kind = "index_dat"
    /\ pc' = "dat_loop"
    /\ UNCHANGED <<env, self, locals, ret, files_out, input, output>>

\* one pass through the body of the while loop of _parse_index_dat
IterateIndexDat ==
    /\ pc = "dat_loop"
    /\ locals.offset < input.file.size - IndexDatMinRecord
    /\ LET step == IndexDatStep(input.file, locals.offset)
       IN  locals' = [locals EXCEPT !.offset = step.offset, !.events = @ \o step.events]
    /\ UNCHANGED <<env, self, pc, ret, files_out, input, output>>

ReturnIndexDat ==
    /\ pc = "dat_loop"
    /\ ~(locals.offset < input.file.size - IndexDatMinRecord)
    /\ pc' = "returned"
    /\ output' = locals.events
    /\ UNCHANGED <<env, self, locals, ret, files_out, input>>

ScanNext ==
    \/ StartEvt \/ IterateEvt \/ ReturnEvt
    \/ StartIndexDat \/ IterateIndexDat \/ ReturnIndexDat

\* a loop that can take its next iteration takes it
SpecScan == InitScan /\ [][ScanNext]_vars /\ WF_vars(ScanNext)

\* ---- properties of the scan loops
InLoop == pc \in {"evt_loop", "dat_loop"}

\* the bytes of the data being scanned
ScanLen == input.file.size - locals.base

\* the loop is about to test the record at the scan offset
AtRecord ==
    \/ /\ pc = "evt_loop" /\ locals.offset < ScanLen - 8
       /\ Bytes4(input.file, locals.base + locals.offset) = "LfLe"
    \/ /\ pc = "dat_loop" /\ locals.offset < ScanLen - IndexDatMinRecord
       /\ Bytes4(input.file, locals.offset) = "URL "

\* the length the record at the scan offset declares
Declared == U32At(input.file, locals.base + locals.offset + 4)

\* C16: both scan loops end on every file.  Every iteration moves the scan
\* offset forward, the offset never passes the end of the data by more than
\* one accepted step, and a record that declares more bytes than remain is
\* passed over by the fixed skip: its length neither moves the offset nor
\* bounds a read, and nothing is emitted for it.
C16_ScanLoopsTerminate ==
    /\ [][(InLoop /\ pc' = pc) => locals'.offset > locals.offset]_vars
    /\ [](InLoop => locals.offset <= ScanLen)
    /\ [][(AtRecord /\ Declared > ScanLen - locals.offset) =>
             /\ locals'.events = locals.events
             /\ locals'.offset = locals.offset
                                 + (IF pc = "evt_loop" THEN EvtBadLengthSkip ELSE IndexDatStride)]_vars
    /\ <>(pc = "returned")

\* an index.dat whose first record declares 4096 bytes has been scanned to
\* its end and the record after it was found
C16_Witness ==
    /\ pc = "returned"
    /\ input.kind = "index_dat"
    /\ Len(input.slots) >= 2
    /\ input.slots[1] = "long"
    /\ input.slots[2] = "good"
    /\ Len(output) = 1

\* ---- properties of the record loop of parse_evt_file
AtEvtRecord == pc = "evt_loop" /\ AtRecord

\* the record at the scan offset passes the length test and its decoding
\* raises
DecodeFails ==
    /\ AtEvtRecord
    /\ ~EvtBadLength(Declared, locals.offset, ScanLen)
    /\ EvtDecodeRaises(env.host, EvtRecordIn(input.file, locals.base + locals.offset))

\* a record with a bad declared length is passed over by 8 bytes, unemitted
BadLengthIsSkipped ==
    [][(AtEvtRecord /\ (Declared < EvtRecordHeader \/ Declared > ScanLen - locals.offset)) =>
          /\ locals'.events = locals.events
          /\ locals'.offset = locals.offset + EvtBadLengthSkip]_vars

\* an event is appended only for a record that lies inside the file
EmittedLiesInsideFile ==
    [][(pc = "evt_loop" /\ locals'.events # locals.events) =>
          /\ AtEvtRecord
          /\ Declared >= EvtRecordHeader
          /\ locals.base + locals.offset + Declared <= input.file.size
          /\ Len(locals'.events) = Len(locals.events) + 1]_vars

\* the slots whose record is well-formed and can be decoded on this host
Decodable ==
    {k \in 1..Len(input.slots) :
        input.slots[k] = "good" \/ (input.slots[k] = "early" /\ env.host.posix)}

\* the returned events are those records, each once, in file order
WellFormedAreEmitted ==
    (pc = "returned" /\ input.kind = "evt") =>
        /\ Len(output) = Cardinality(Decodable)
        /\ \A i \in 1..Len(output) : output[i].record_number \in Decodable
        /\ \A i, j \in 1..Len(output) :
              i < j => output[i].record_number < output[j].record_number

ByteAt(rd, p) == rd.tail[p - EvtRecordHeader + 1]

\* record_data.find(b'\x00\x00', start): the first position from start on
\* where two zero bytes follow each other, -1 when there is none
FindNulNul(rd, start) ==
    LET hits == {p \in start..(rd.size - 2) : ByteAt(rd, p) = 0 /\ ByteAt(rd, p + 1) = 0}
    IN  IF hits = {} THEN -1 ELSE CHOOSE p \in hits : \A q \in hits : p <= q

\* record_data[a:b].decode('utf-16le', errors='ignore'): one code unit per
\* pair of bytes, low byte first; a last byte without a partner is dropped
DecodeUtf16le(rd, a, b) ==
    [i \in 1..((b - a) \div 2) |->
        ByteAt(rd, a + 2 * (i - 1)) + 256 * ByteAt(rd, a + 2 * (i - 1) + 1)]

\* the loop "for i in range(num_strings)" from string i on, current_pos
\* counted from the start of the record
RECURSIVE EvtStrings(_, _, _)
EvtStrings(rd, i, current_pos) ==
    IF i >= rd.num_strings \/ current_pos >= rd.size THEN <<>>
    ELSE LET null_pos == FindNulNul(rd, current_pos)
         IN  IF null_pos = -1 THEN <<>>
             ELSE <<DecodeUtf16le(rd, current_pos, null_pos)>>
                  \o EvtStrings(rd, i + 1, null_pos + 2)

\* _parse_evt_record, lines 149-192: source_name, computer_name and strings
EvtRecordTexts(rd) ==
    LET source_start == EvtRecordHeader
        source_end == FindNulNul(rd, source_start)
        computer_start == IF source_end # -1 THEN source_end + 2 ELSE source_start
        computer_end == FindNulNul(rd, computer_start)
    IN  [source_name |-> IF source_end = -1 THEN <<>>
                         ELSE DecodeUtf16le(rd, source_start, source_end),
         computer_name |-> IF computer_end = -1 THEN <<>>
                           ELSE DecodeUtf16le(rd, computer_start, computer_end),
         strings |-> IF rd.string_offset < rd.size /\ rd.num_strings > 0
                     THEN EvtStrings(rd, 0, rd.string_offset) ELSE <<>>]

\* ---- records with stored texts
MaxTextLen == 2
MaxStrings == 2

\* "A" and the Cyrillic letter Zhe (U+0416), whose two bytes are not zero
TextAlphabet == {65, 1046}
Texts == UNION {[1..n -> TextAlphabet] : n \in 0..MaxTextLen}

\* text.encode('utf-16le') + b'\x00\x00'
RECURSIVE Utf16leZ(_)
Utf16leZ(text) ==
    IF text = <<>> THEN <<0, 0>>
    ELSE <<Head(text) % 256, Head(text) \div 256>> \o Utf16leZ(Tail(text))

\* the record that stores these texts behind its header, the strings
\* directly after the computer name
TextRecord(source, computer, strings) ==
    LET names == Utf16leZ(source) \o Utf16leZ(computer)
        tail == names \o Flatten([i \in 1..Len(strings) |-> Utf16leZ(strings[i])])
    IN  [source |-> source, computer |-> computer, stored |-> strings,
         rd |-> [size |-> EvtRecordHeader + Len(tail), tail |-> tail,
                 string_offset |-> EvtRecordHeader + Len(names),
                 num_strings |-> Len(strings)]]

TextRecords ==
    {TextRecord(source, computer, strings) :
        source \in Texts, computer \in Texts,
        strings \in UNION {[1..n -> Texts] : n \in 0..MaxStrings}}

InitEvtRecord == Ready(TextRecords)
ParseEvtRecord == Call(EvtRecordTexts(input.rd))
SpecEvtRecord == InitEvtRecord /\ [][ParseEvtRecord]_vars

\* C18: the source name, the computer name and every string of a record
\* are returned as they are stored, no character dropped and none added,
\* the strings in their order on disk.
C18_StoredTextsAreReturned ==
    pc = "returned" =>
        /\ output.source_name = input.source
        /\ output.computer_name = input.computer
        /\ output.strings = input.stored

\* the text whose every character has a high byte that is not zero
NoZeroHighByte(text) == \A i \in 1..Len(text) : text[i] \div 256 # 0

\* the same for records none of whose texts ends in a character with a zero
\* high byte
TextsWithoutZeroBytesAreReturned ==
    (pc = "returned" /\ NoZeroHighByte(input.source) /\ NoZeroHighByte(input.computer)
        /\ \A i \in 1..Len(input.stored) : NoZeroHighByte(input.stored[i]))
    => /\ output.source_name = input.source
       /\ output.computer_name = input.computer
       /\ output.strings = input.stored

\* ===================================== event_logs.py: logon events
\* the keys of logon_event_ids
LogonEventIds ==
    {528, 529, 530, 531, 532, 533, 534, 535, 536, 537, 538, 539, 540,
     4624, 4625, 4634, 4647, 4648}

LogonSuccessIds == {528, 540, 4624}
LogonFailureIds == {529, 530, 531, 532, 533, 534, 535, 536, 537, 539, 4625}
LogoffIds == {538, 4634, 4647}

\* the success mapping with positions 3 and 4 exchanged
LogonSuccessFieldsSwapped ==
    <<"user_name", "domain", "logon_id", "logon_process", "logon_type",
      "authentication_package", "workstation_name", "source_network_address">>

\* the keys assigned from strings[0], strings[1], ... for each kind of event
LogonSuccessFields ==
    <<"user_name", "domain", "logon_id", "logon_type", "logon_process",
      "authentication_package", "workstation_name", "source_network_address">>
LogonFailureFields ==
    <<"user_name", "domain", "failure_reason", "status", "sub_status", "workstation_name">>
LogoffFields == <<"user_name", "domain", "logon_id">>

\* the empty dict
NoDetails == [k \in {} |-> ""]

\* "if len(strings) >= n: details[fields[0]] = strings[0]; ..."
Attribute(fields, strings) ==
    IF Len(strings) >= Len(fields)
    THEN [k \in Range(fields) |-> strings[CHOOSE i \in 1..Len(fields) : fields[i] = k]]
    ELSE NoDetails

_parse_logon_strings(event_id, strings) ==
    IF event_id \in LogonSuccessIds THEN Attribute(LogonSuccessFields, strings)
    ELSE IF event_id \in LogonFailureIds THEN Attribute(LogonFailureFields, strings)
    ELSE IF event_id \in LogoffIds THEN Attribute(LogoffFields, strings)
    ELSE NoDetails

\* extract_logon_events: a copy of every event whose id is in the table,
\* with logon_details when the event has strings (the description text
\* added to the copy is left out)
RECURSIVE extract_logon_events(_)
extract_logon_events(events) ==
    IF events = <<>> THEN <<>>
    ELSE LET event == Head(events)
             details == _parse_logon_strings(event.event_id, event.strings)
         IN  (IF event.event_id \notin LogonEventIds THEN <<>>
              ELSE IF event.strings # <<>>
              THEN <<event @@ [logon_details |-> details]>>
              ELSE <<event>>)
             \o extract_logon_events(Tail(events))

\* ---- lists of events
MaxLogonEvents == 2

StringTokens == <<"s0", "s1", "s2", "s3", "s4", "s5", "s6", "s7", "s8">>
StringCounts == {0, 2, 3, 5, 6, 7, 8, 9}
EventIdsTried == {100, 528, 529, 538, 539, 540, 4624, 4625, 4647, 4648}

\* the k-th event of a list carries record number k
EventLists ==
    UNION {{[k \in 1..n |->
               [record_number |-> k, event_id |-> ids[k],
                strings |-> SubSeq(StringTokens, 1, counts[k])]] :
              ids \in [1..n -> EventIdsTried], counts \in [1..n -> StringCounts]} :
           n \in 0..MaxLogonEvents}

InitLogon ==
    /\ env = [host |-> [stdout_unicode |-> TRUE, tmp_fail |-> {}, posix |-> TRUE,
                        tz_secs |-> 0]]
    /\ input \in EventLists
    /\ pc = "call"
    /\ self = NewExtractor
    /\ locals = [user_profiles |-> <<>>, all_artifacts |-> NoArtifacts]
    /\ ret = Pending
    /\ files_out = {}
    /\ output = Idle

ExtractLogonEvents == Call(extract_logon_events(input))
SpecLogon == InitLogon /\ [][ExtractLogonEvents]_vars

\* the fields attributed to an event of the output
DetailsOf(event) ==
    IF "logon_details" \in DOMAIN event THEN event.logon_details ELSE NoDetails

\* C19: extract_logon_events returns exactly the events whose id is in the
\* logon table, in input order, and attributes their strings by position:
\* strings 0..7 of a success event, 0..5 of a failure event and 0..2 of a
\* logoff event go to the fields of its mapping, in that order, and an
\* event with fewer strings than its mapping needs gets no field at all.
C19_LogonStringsByPosition ==
    pc = "returned" =>
        /\ Len(output) = Cardinality({k \in 1..Len(input) : input[k].event_id \in LogonEventIds})
        /\ \A i, j \in 1..Len(output) :
              i < j => output[i].record_number < output[j].record_number
        /\ \A i \in 1..Len(output) :
              LET e == output[i]
                  s == e.strings
                  d == DetailsOf(e)
                  needs == IF e.event_id \in {528, 540, 4624} THEN 8
                           ELSE IF e.event_id \in {538, 4634, 4647} THEN 3
                           ELSE IF e.event_id = 4648 THEN 0 ELSE 6
              IN  /\ e.event_id \in LogonEventIds
                  /\ e.event_id = input[e.record_number].event_id
                  /\ s = input[e.record_number].strings
                  /\ IF needs = 0 \/ Len(s) < needs THEN DOMAIN d = {}
                     ELSE IF needs = 8
                     THEN /\ DOMAIN d = {"user_name", "domain", "logon_id", "logon_type",
                                         "logon_process", "authentication_package",
                                         "workstation_name", "source_network_address"}
                          /\ d.user_name = s[1] /\ d.domain = s[2] /\ d.logon_id = s[3]
                          /\ d.logon_type = s[4] /\ d.logon_process = s[5]
                          /\ d.authentication_package = s[6]
                          /\ d.workstation_name = s[7]
                          /\ d.source_network_address = s[8]
                     ELSE IF needs = 6
                     THEN /\ DOMAIN d = {"user_name", "domain", "failure_reason", "status",
                                         "sub_status", "workstation_name"}
                          /\ d.user_name = s[1] /\ d.domain = s[2]
                          /\ d.failure_reason = s[3] /\ d.status = s[4]
                          /\ d.sub_status = s[5] /\ d.workstation_name = s[6]
                     ELSE /\ DOMAIN d = {"user_name", "domain", "logon_id"}
                          /\ d.user_name = s[1] /\ d.domain = s[2] /\ d.logon_id = s[3]

\* of an event outside the table and a network logon with nine strings the
\* second has been returned with its eight fields; of a failure with five
\* strings nothing would be attributed
C19_Witness ==
    /\ pc = "returned"
    /\ Len(input) = 2
    /\ input[1].event_id = 100
    /\ input[2].event_id = 540
    /\ Len(input[2].strings) = 9
    /\ Len(output) = 1
    /\ output[1].logon_details.logon_type = "s3"
    /\ output[1].logon_details.source_network_address = "s7"

\* ============================ registry: UserAssist, several values and GUIDs
MaxCountValues == 2
MaxGuids == 2

GuidNames == <<"{75048700}", "{5E6AB780}">>
\* N, A
CountValueNames == <<<<78>>, <<65>>>>

\* payloads as value.value() returns them: REG_BINARY of 8, 16 and 72 bytes,
\* a REG_SZ of 20 characters, a REG_DWORD
CountPayloads ==
    CountData \cup
    {[kind |-> k, size |-> n, run_count |-> 3,
      last_run_xp |-> FT(EpochDays + 13000, 5, 0),
      last_run_win7 |-> FT(EpochDays + 17000, 6, 0)] :
        <<k, n>> \in {<<"str", 20>>, <<"int", 4>>}}

CountKeys ==
    UNION {{[j \in 1..n |-> [name |-> CountValueNames[j], data |-> payloads[j]]] :
              payloads \in [1..n -> CountPayloads]} : n \in 0..MaxCountValues}

GuidKeys ==
    UNION {{[g \in 1..n |->
               [name |-> GuidNames[g], has_count |-> counts[g] # <<>>,
                values |-> counts[g]]] :
              counts \in [1..n -> CountKeys]} : n \in 1..MaxGuids}

InitUserAssistKeys ==
    Ready({[has_userassist |-> TRUE, guids |-> guids] : guids \in GuidKeys})
ParseUserAssistKeys == Call(extract_userassist(env.host, input))
SpecUserAssistKeys == InitUserAssistKeys /\ [][ParseUserAssistKeys]_vars

\* a value whose payload is a byte string of one of the two layouts
WellFormedValue(value) ==
    value.data.kind = "bytes" /\ value.data.size >= UserAssistMinData

\* the output has a record for value j of GUID g
Emitted(g, j) ==
    \E i \in 1..Len(output) :
        /\ output[i].guid = input.guids[g].name
        /\ output[i].program = Rot13(input.guids[g].values[j].name)

\* C20: in extract_userassist a value with a malformed payload (wrong
\* length, or not a byte string) emits no record, and every well-formed
\* value under the same Count key and under every other GUID is emitted.
C20_MalformedValueIsPerEntrySkip ==
    pc = "returned" =>
        \A g \in 1..Len(input.guids) : \A j \in 1..Len(input.guids[g].values) :
            Emitted(g, j) <=> WellFormedValue(input.guids[g].values[j])

\* value j of GUID g comes after a numeric payload of the same Count key
AfterNumber(g, j) ==
    \E k \in 1..j : input.guids[g].values[k].data.kind = "int"

\* What the code keeps: a malformed value emits nothing, and a well-formed
\* value is emitted unless a numeric payload stands at or before it in its
\* own Count key; the other GUIDs are not affected.
NumberEndsItsOwnCountKeyOnly ==
    pc = "returned" =>
        \A g \in 1..Len(input.guids) : \A j \in 1..Len(input.guids[g].values) :
            Emitted(g, j) <=>
                (WellFormedValue(input.guids[g].values[j]) /\ ~AfterNumber(g, j))

\* ================================ filesystem_artifacts.py: prefetch files
\* A prefetch file is kept as [len, sig, word4, name_offset, name, t120,
\* words]: sig the bytes 0..3, word4 the little-endian number in bytes 4..7,
\* name the text stored at name_offset, t120 the FILETIME in bytes 120..127
\* and words[k] the little-endian number in bytes 128+4k .. 131+4k, for
\* k = 0..15.  Bytes past len are not in the file.
PrefetchMinFile == 84
PrefetchSCCA == <<83, 67, 67, 65>>
PrefetchMAM == <<77, 65, 77, 4>>
PrefetchSignatures == {PrefetchSCCA, PrefetchMAM}
PrefetchWordsBase == 128
PrefetchSlots == 8

\* struct.unpack('<I', b)[0]
U32LE(b) == b[1] + 256 * b[2] + 65536 * b[3] + 16777216 * b[4]

\* pf_data[off:off+4] is four bytes long
PfHas(pf, off, n) == off + n <= pf.len
PfWord(pf, off) == pf.words[(off - PrefetchWordsBase) \div 4]

\* the stem of the file name, used when the name offset lies past the file
FilenameStem == <<67, 65, 76, 67>>

PfExecutableName(pf) == IF pf.name_offset < pf.len THEN RStripNul(pf.name) ELSE FilenameStem

\* The FILETIME whose low and high 32-bit words are lo and hi.  2^32 ticks
\* are 429 s and 4967296 ticks, and 10^7 * 2^32 ticks are 49710 days and
\* 23296 s; exact for lo < 10^8 and hi % 10^7 <= 400.
FiletimeOfWords(lo, hi) ==
    LET m == hi \div TicksPerSecond
        r == hi % TicksPerSecond
        k == r * 4967296 + lo
        s == m * 23296 + r * 429 + (k \div TicksPerSecond)
    IN  FT(m * 49710 + (s \div SecondsPerDay), s % SecondsPerDay, k % TicksPerSecond)

\* _parse_prefetch_v17: None when a read past the end or the conversion of
\* a positive last run time raises
_parse_prefetch_v17(host, pf) ==
    IF ~PfHas(pf, 144, 4) THEN None
    ELSE IF FtPositive(pf.t120) /\ FromTimestampIso(host, pf.t120) = None THEN None
    ELSE Some([executable_name |-> PfExecutableName(pf),
               run_count |-> PfWord(pf, 144),
               last_run_time |-> FileTimeToIso(host, pf.t120),
               version |-> "XP/2003"])

\* the body of "for i in range(8)": the timestamp of slot i when the slot is
\* inside the file, positive and convertible
PfSlotTime(host, pf, i) ==
    LET timestamp_offset == PrefetchWordsBase + i * 8
        timestamp == FiletimeOfWords(PfWord(pf, timestamp_offset),
                                     PfWord(pf, timestamp_offset + 4))
    IN  IF PfHas(pf, timestamp_offset, 8) /\ FtPositive(timestamp)
        THEN FromTimestampIso(host, timestamp) ELSE <<>>

RECURSIVE PfLastRunTimes(_, _, _)
PfLastRunTimes(host, pf, i) ==
    IF i >= PrefetchSlots THEN <<>>
    ELSE PfSlotTime(host, pf, i) \o PfLastRunTimes(host, pf, i + 1)

_parse_prefetch_v1A(host, pf) ==
    IF ~PfHas(pf, 152, 4) THEN None
    ELSE LET last_run_times == PfLastRunTimes(host, pf, 0)
         IN  Some([executable_name |-> PfExecutableName(pf),
                   run_count |-> PfWord(pf, 152),
                   last_run_times |-> last_run_times,
                   last_run_time |-> IF last_run_times # <<>>
                                     THEN Some(last_run_times[1]) ELSE None,
                   version |-> "Vista/7"])

\* the number the dispatch is made on
PfVersion(pf) == IF pf.sig = PrefetchSCCA THEN U32LE(pf.sig) ELSE pf.word4

_parse_prefetch_file(host, pf) ==
    IF pf.len < PrefetchMinFile THEN None
    ELSE IF pf.sig \notin PrefetchSignatures THEN None
    ELSE IF PfVersion(pf) = 23 THEN _parse_prefetch_v17(host, pf)
    ELSE IF PfVersion(pf) \in {26, 30, 31} THEN _parse_prefetch_v1A(host, pf)
    ELSE None

\* ---- prefetch files
PfLengths == {83, 84, 147, 148, 155, 156, 160, 192}
PfSigsTried == PrefetchSignatures \cup {<<77, 65, 77, 5>>}
PfVersionsTried == {17, 23, 26, 30, 31}
\* a run in 2009, with the low word of its FILETIME at 1000
PfHighWord == 30000000
PfRunCounts == {0, 3, 50}

PfWordsOf(slot0, xp_count, run_count, hi3) ==
    [k \in 0..15 |->
        IF k = 0 THEN slot0[1] ELSE IF k = 1 THEN slot0[2]
        ELSE IF k = 4 THEN xp_count
        ELSE IF k = 6 THEN run_count
        ELSE IF k = 7 THEN hi3 ELSE 0]

PrefetchFiles ==
    {[len |-> n, sig |-> sig, word4 |-> v, name_offset |-> off,
      name |-> <<67, 65, 76, 67, 46, 69, 88, 69, 0>>, t120 |-> t,
      words |-> PfWordsOf(slot0, xp, rc, hi3)] :
        n \in PfLengths, sig \in PfSigsTried, v \in PfVersionsTried,
        off \in {100, 500},
        t \in {FtZero, FT(EpochDays + 14000, 5, 0), FT(100, 0, 0)},
        slot0 \in {<<0, 0>>, <<1000, PfHighWord>>}, xp \in {0, 7},
        rc \in PfRunCounts, hi3 \in {0, PfHighWord}}

InitPrefetch == Ready(PrefetchFiles)
ParsePrefetchFile == Call(_parse_prefetch_file(env.host, input))
SpecPrefetch == InitPrefetch /\ [][ParsePrefetchFile]_vars

\* C21: a file of at least 84 bytes that carries one of the two signatures
\* yields a record of the XP/2003 layout when the version behind the
\* signature is 0x17, a record of the Vista/7 layout when it is 0x1A, 0x1E
\* or 0x1F, and every other signature or version yields no record.
C21_DispatchOnVersion ==
    pc = "returned" =>
        IF input.len >= 84 /\ input.sig \in {PrefetchSCCA, PrefetchMAM}
        THEN IF input.word4 = 23
             THEN output # None /\ output[1].version = "XP/2003"
             ELSE IF input.word4 \in {26, 30, 31}
             THEN output # None /\ output[1].version = "Vista/7"
             ELSE output = None
        ELSE output = None

\* The dispatch the code makes: only a file beginning with 'MAM\x04' can
\* yield a record, and only when it reaches to the run count of its layout
\* and, in the XP/2003 layout, its last run time can be converted.
DispatchOnVersionOfMamFiles ==
    pc = "returned" =>
        LET v == input.word4
            xp == /\ v = 23 /\ input.len >= 148
                  /\ (FtPositive(input.t120) => FromTimestampIso(env.host, input.t120) # None)
            vista == v \in {26, 30, 31} /\ input.len >= 156
        IN  IF input.len >= 84 /\ input.sig = PrefetchMAM /\ (xp \/ vista)
            THEN /\ output # None
                 /\ output[1].version = (IF xp THEN "XP/2003" ELSE "Vista/7")
            ELSE output = None

\* ---- the Vista/7 layout
\* files that are dispatched to the Vista/7 layout and reach to its run count
VistaPrefetchFiles ==
    {pf \in PrefetchFiles :
        pf.sig = PrefetchMAM /\ pf.word4 \in {26, 30, 31} /\ pf.len >= 156}

InitVistaPrefetch == Ready(VistaPrefetchFiles)
ParseVistaPrefetch == Call(_parse_prefetch_file(env.host, input))
SpecVistaPrefetch == InitVistaPrefetch /\ [][ParseVistaPrefetch]_vars

\* the file with another number in the bytes of the run count
WithRunCount(pf, run_count) == [pf EXCEPT !.words[6] = run_count]

\* C22: the Vista/7 layout reports at most eight last-run timestamps, and
\* the bytes of the run count belong to none of the eight slots: writing
\* another run count into the file changes no reported timestamp.
C22_RunCountIsOutsideTheSlots ==
    pc = "returned" =>
        /\ output # None
        /\ Len(output[1].last_run_times) <= 8
        /\ \A run_count \in PfRunCounts :
              LET other == _parse_prefetch_file(env.host, WithRunCount(input, run_count))
              IN  /\ other[1].run_count = run_count
                  /\ other[1].last_run_times = output[1].last_run_times

\* What the code keeps: at most eight timestamps, and another run count
\* changes the timestamp of no slot but the fourth, whose low half is the
\* run count.
RunCountIsTheFourthSlot ==
    pc = "returned" =>
        /\ output # None
        /\ Len(output[1].last_run_times) <= 8
        /\ \A run_count \in PfRunCounts :
              LET other == WithRunCount(input, run_count)
              IN  /\ \A i \in (0..7) \ {3} :
                        PfSlotTime(env.host, other, i) = PfSlotTime(env.host, input, i)
                  /\ PfWord(other, 128 + 3 * 8) = run_count

\* ---- shell links whose last announced string is missing
\* the last string flag set in flags (0 when none is)
LastString(flags) ==
    IF \E i \in 1..5 : Bit(flags, StringFlags[i])
    THEN CHOOSE i \in 1..5 :
            /\ Bit(flags, StringFlags[i])
            /\ \A j \in (i + 1)..5 : ~Bit(flags, StringFlags[j])
    ELSE 0

\* The link of these flags stored "whole"; with its last string stored and
\* "empty" (length prefix 0); ending before the length prefix of its last
\* string ("absent"), inside the prefix ("cut_prefix") or one byte before
\* the end of the string ("cut_text").
LnkVariant(flags, kind) ==
    LET whole == LnkFixture(flags)
        start == StringStart(flags, LastString(flags))
    IN  IF kind = "whole" THEN whole
        ELSE IF kind = "empty"
        THEN [whole EXCEPT !.size = start + 2, !.u16[start] = 0,
                           !.text = [o \in DOMAIN whole.text \ {start + 2} |-> whole.text[o]]]
        ELSE IF kind = "absent" THEN [whole EXCEPT !.size = start]
        ELSE IF kind = "cut_prefix" THEN [whole EXCEPT !.size = start + 1]
        ELSE [whole EXCEPT !.size = whole.size - 1]

ConsistentKinds == {"whole", "empty"}
MissingKinds == {"absent", "cut_prefix", "cut_text"}
StringLinkFlags == {flags \in 0..127 : LastString(flags) # 0}

LnkFileName == <<"a", ".", "l", "n", "k">>

\* the links that store everything their header announces
ConsistentLinks ==
    {LnkVariant(flags, kind) : flags \in StringLinkFlags, kind \in ConsistentKinds}
    \cup {LnkFixture(0)}

InitLnkMissing ==
    Ready({[kind |-> kind, file |-> LnkVariant(flags, kind)] :
              flags \in StringLinkFlags, kind \in ConsistentKinds \cup MissingKinds})
ParseLnkMissing == Call(_parse_link_file(env.host, input.file, LnkFileName))
SpecLnkMissing == InitLnkMissing /\ [][ParseLnkMissing]_vars

\* the record has the header fields of the file and, when the last string
\* is one the record holds, holds it empty
HeaderIntactStringEmpty ==
    /\ output # None
    /\ output[1].link_flags = input.file.link_flags
    /\ output[1].file_size = input.file.file_size
    /\ output[1].file_attributes = input.file.file_attributes
    /\ output[1].icon_index = input.file.icon_index
    /\ output[1].show_command = input.file.show_command
    /\ output[1].creation_time = FileTimeToIso(env.host, input.file.creation_time)
    /\ output[1].write_time = FileTimeToIso(env.host, input.file.write_time)
    /\ LET key == StringKeys[LastString(input.file.link_flags)]
       IN  key \in DOMAIN output[1] => output[1][key] = <<>>

\* C23: for a link whose header announces a string that is absent or
\* truncated, _parse_link_file returns a record with the header fields
\* intact and that string empty, and the record shows the inconsistency:
\* no link that stores everything its header announces gives the same one.
C23_MissingStringIsSurfaced ==
    (pc = "returned" /\ input.kind \in MissingKinds) =>
        /\ HeaderIntactStringEmpty
        /\ \A file \in ConsistentLinks :
              _parse_link_file(env.host, file, LnkFileName) # output

\* What the code keeps: the record is returned with the header fields
\* intact and the string empty, and it is the very record of the link with
\* the same header that stores the string with length zero.
MissingStringReadsAsEmptyString ==
    (pc = "returned" /\ input.kind \in MissingKinds) =>
        /\ HeaderIntactStringEmpty
        /\ output = _parse_link_file(env.host, LnkVariant(input.file.link_flags, "empty"),
                                     LnkFileName)
        /\ \A file \in ConsistentLinks :
              file.link_flags # input.file.link_flags =>
                  _parse_link_file(env.host, file, LnkFileName) # output

\* ============================== browser_artifacts.py: the URL of a record
\* A record is kept as [record_size, body, tail]: body the bytes 52 ..
\* record_size - 1 of the record, tail the number of bytes that follow it in
\* the data.  Its signature is 'URL ' and it starts at offset 0.
IndexDatUrlBase == 52
IndexDatUrlOffsets == <<52, 56, 60, 64>>
IndexDatFallbackLen == 256
\* "[Partial URL data at offset 0]", kept without the offset
PartialUrlLabel == <<91, 80, 97, 114, 116, 105, 97, 108, 93>>

LowerCase(c) == IF c >= 65 /\ c <= 90 THEN c + 32 ELSE c
Lower(s) == [i \in 1..Len(s) |-> LowerCase(s[i])]

\* bytes.decode('ascii', errors='ignore')
IsAscii(b) == b < 128
DecodeAsciiIgnore(bytes) == SelectSeq(bytes, IsAscii)

\* str.isprintable on one ASCII character
IsPrintable(c) == c >= 32 /\ c <= 126

\* data.find(b'\x00', url_start, offset + record_size) as an index of body,
\* Len(body) + 1 standing for the end of the record
UrlEnd(body, from) ==
    IF \E i \in from..Len(body) : body[i] = 0
    THEN CHOOSE i \in from..Len(body) : body[i] = 0 /\ \A j \in from..(i - 1) : body[j] # 0
    ELSE Len(body) + 1

\* potential_url for one candidate offset
PotentialUrl(rec, url_offset) ==
    LET from == url_offset - IndexDatUrlBase + 1
    IN  DecodeAsciiIgnore(SubSeq(rec.body, from, UrlEnd(rec.body, from) - 1))

\* "len(potential_url) > 3 and ('http' in ... or 'www.' in ... or '.' in ...)"
LooksLikeUrl(s) ==
    /\ Len(s) > 3
    /\ \/ Contains(Lower(s), <<104, 116, 116, 112>>)
       \/ Contains(Lower(s), <<119, 119, 119, 46>>)
       \/ Contains(s, <<46>>)

\* "for url_offset in [52, 56, 60, 64]": the first candidate from the k-th
\* on that lies inside the record and looks like a URL, "" when none does
RECURSIVE UrlFromCandidates(_, _)
UrlFromCandidates(rec, k) ==
    IF k > Len(IndexDatUrlOffsets) THEN <<>>
    ELSE IF IndexDatUrlOffsets[k] < rec.record_size
            /\ LooksLikeUrl(PotentialUrl(rec, IndexDatUrlOffsets[k]))
    THEN PotentialUrl(rec, IndexDatUrlOffsets[k])
    ELSE UrlFromCandidates(rec, k + 1)

\* "if not url": the printable characters of up to 256 bytes from offset 52
\* (the zero bytes are not printable, so split('\x00') finds one piece),
\* replaced by the label when fewer than three are left
UrlFallback(rec) ==
    LET url == SelectSeq(DecodeAsciiIgnore(SubSeq(rec.body, 1,
                            Min2(Len(rec.body), IndexDatFallbackLen))), IsPrintable)
    IN  IF Len(url) < 3 THEN PartialUrlLabel ELSE url

IndexDatUrl(rec) ==
    IF UrlFromCandidates(rec, 1) # <<>> THEN UrlFromCandidates(rec, 1) ELSE UrlFallback(rec)

\* _parse_index_dat on the data made of this one record and its tail (the
\* two timestamps of the entry are left out)
IndexDatEntries(rec) ==
    LET len == rec.record_size + rec.tail
    IN  IF ~(0 < len - IndexDatMinRecord) THEN <<>>
        ELSE IF IndexDatBadSize(rec.record_size, 0, len) THEN <<>>
        ELSE IF Len(IndexDatUrl(rec)) > 1
        THEN <<[source |-> "internet_explorer", url |-> IndexDatUrl(rec),
                record_size |-> rec.record_size]>>
        ELSE <<>>

\* ---- records
\* "http", "a.bc", "abcd", four zero bytes, "ab" and two zero bytes, four
\* control bytes, four bytes that are not ASCII
UrlBlocks ==
    {<<104, 116, 116, 112>>, <<97, 46, 98, 99>>, <<97, 98, 99, 100>>, <<0, 0, 0, 0>>,
     <<97, 98, 0, 0>>, <<1, 1, 1, 1>>, <<200, 200, 200, 200>>}
MaxUrlBlocks == 4

UrlRecords ==
    UNION {{[record_size |-> IndexDatUrlBase + 4 * n, body |-> Flatten(blocks), tail |-> tail] :
              blocks \in [1..n -> UrlBlocks], tail \in {0, 64}} :
           n \in 3..MaxUrlBlocks}

InitIndexDatUrl == Ready(UrlRecords)
ParseIndexDatRecord == Call(IndexDatEntries(input))
SpecIndexDatUrl == InitIndexDatUrl /\ [][ParseIndexDatRecord]_vars

\* the candidate offsets of the record whose string looks like a URL
Qualifying(rec) ==
    {o \in {52, 56, 60, 64} : o < rec.record_size /\ LooksLikeUrl(PotentialUrl(rec, o))}

\* C24: every 'URL ' record of plausible length gives an entry; its URL is
\* the string at the first of the offsets 52, 56, 60, 64 that looks like a
\* URL, and when none does the URL is labeled as partial.
C24_HeuristicUrlIsLabeled ==
    pc = "returned" =>
        /\ Len(output) = 1
        /\ IF Qualifying(input) # {}
           THEN output[1].url =
                    PotentialUrl(input, CHOOSE o \in Qualifying(input) :
                                            \A p \in Qualifying(input) : o <= p)
           ELSE output[1].url = PartialUrlLabel

\* What the code keeps, for a record followed by more data: the first
\* qualifying candidate is taken, and without one the URL is the label only
\* when fewer than three printable characters follow offset 52, the
\* unlabeled run of printable characters otherwise.
ShortFallbackIsLabeled ==
    (pc = "returned" /\ input.tail > 0) =>
        /\ Len(output) = 1
        /\ IF Qualifying(input) # {}
           THEN output[1].url =
                    PotentialUrl(input, CHOOSE o \in Qualifying(input) :
                                            \A p \in Qualifying(input) : o <= p)
           ELSE LET printable == {i \in 1..Len(input.body) : IsPrintable(input.body[i])}
                IN  IF Cardinality(printable) < 3 THEN output[1].url = PartialUrlLabel
                    ELSE /\ output[1].url # PartialUrlLabel
                         /\ Len(output[1].url) = Cardinality(printable)

\* ============================== one instant, stored in the three encodings
\* An instant is [day, sec, micro], counted from 1970-01-01 UTC.
InstantDays == {14000, 16500}
InstantSecs == {0, 3600, 70000, 86399}
InstantMicros == {0, 250000}

\* the instant as a FILETIME, as Firefox and as Chromium microseconds
AsFiletime(i) == FT(EpochDays + i.day, i.sec, i.micro * TicksPerMicro)
AsFirefox(i) == Micros(i.day, i.sec, i.micro)
AsChromium(i) == Micros(EpochDays + i.day, i.sec, i.micro)

\* a database whose history table has one row with this time
OneRowDb(time) ==
    [readable |-> TRUE, valid |-> TRUE, rows |-> <<[url |-> "u", time |-> Some(time)]>>]

\* an NTUSER.DAT with one UserAssist value of 72 bytes run at this time
OneValueHive(t) ==
    [has_userassist |-> TRUE,
     guids |-> <<[name |-> "{75048700}", has_count |-> TRUE,
                  values |-> <<[name |-> <<78>>,
                                data |-> [kind |-> "bytes", size |-> 72, run_count |-> 1,
                                          last_run_xp |-> FtZero, last_run_win7 |-> t]]>>]>>]

InitInstant ==
    /\ \E host \in ParserHosts : env = [host |-> host]
    /\ input \in [day : InstantDays, sec : InstantSecs, micro : InstantMicros]
    /\ pc = "call"
    /\ self = NewExtractor
    /\ locals = [parser \in {} |-> input]
    /\ ret = Pending
    /\ files_out = {}
    /\ output = Idle

\* the caller keeps the time a parser emitted
Emit(parser, instant) ==
    /\ parser \notin DOMAIN locals
    /\ locals' = locals @@ (parser :> instant)
    /\ pc' = IF DOMAIN locals' = {"registry", "firefox", "chromium"} THEN "returned" ELSE pc
    /\ UNCHANGED <<env, self, ret, files_out, input, output>>

UserAssistOfInstant ==
    Emit("registry", extract_userassist(env.host, OneValueHive(AsFiletime(input)))[1].last_run[1])
FirefoxOfInstant ==
    Emit("firefox",
         _extract_firefox_history(env.host, OneRowDb(AsFirefox(input)))[1].last_visit.value)
ChromiumOfInstant ==
    Emit("chromium",
         _extract_chromium_history(OneRowDb(AsChromium(input)), "chrome")[1].last_visit.value)

SpecInstant ==
    InitInstant /\ [][UserAssistOfInstant \/ FirefoxOfInstant \/ ChromiumOfInstant]_vars

\* C25: the same instant stored as a FILETIME, as Firefox microseconds and
\* as Chromium microseconds is emitted as the same UTC instant by every
\* parser, whatever the time zone of the host.
C25_OneCanonicalInstant ==
    pc = "returned" =>
        /\ locals["registry"] = input
        /\ locals["firefox"] = input
        /\ locals["chromium"] = input

\* What the code keeps: the Chromium parser emits the UTC wall clock, the
\* FILETIME and Firefox parsers the wall clock of the host's time zone.
LocalTimeButForChromium ==
    pc = "returned" =>
        LET local == Instant(input.day, input.sec + env.host.tz_secs, input.micro)
        IN  /\ locals["chromium"] = input
            /\ locals["registry"] = local
            /\ locals["firefox"] = local

\* ================================== temporary files and SQLite connections
\* The temp directory and the open connections during a sequence of calls
\* of load_registry_hive and of the browser _extract_* functions, all of
\* which read the file, write it to a temp file and parse that.  locals is
\* [calls, fn, tmp, temps, conns, failed]: the number of calls begun, the
\* function running, its temp file, the temp files that exist, the
\* connections that are open and the temp files whose writing failed.
MaxTempCalls == 3

BrowserExtractors ==
    {"_extract_firefox_history", "_extract_firefox_cookies", "_extract_firefox_downloads",
     "_extract_chromium_history", "_extract_chromium_cookies", "_extract_chromium_downloads"}
TempUsers == {"load_registry_hive"} \cup BrowserExtractors

InitTemp ==
    /\ env = [host |-> [stdout_unicode |-> TRUE, tmp_fail |-> {}, posix |-> TRUE,
                        tz_secs |-> 0]]
    /\ input = MaxTempCalls
    /\ pc = "idle"
    /\ self = NewExtractor
    /\ locals = [calls |-> 0, fn |-> "", tmp |-> 0, temps |-> {}, conns |-> {}, failed |-> {}]
    /\ ret = Pending
    /\ files_out = {}
    /\ output = Idle

TempFrame == UNCHANGED <<env, self, ret, files_out, input, output>>

\* "raw = self.read_file_bytes(path); if not raw: return": the file is
\* missing or empty and the function returns before any temp file
SkipMissing ==
    /\ pc = "idle" /\ locals.calls < input
    /\ \E fn \in TempUsers : locals' = [locals EXCEPT !.calls = @ + 1, !.fn = fn]
    /\ pc' = "idle"
    /\ TempFrame

\* write_temp returns the name of the file it wrote and closed
WriteTemp ==
    /\ pc = "idle" /\ locals.calls < input
    /\ \E fn \in TempUsers :
          locals' = [locals EXCEPT !.calls = @ + 1, !.fn = fn, !.tmp = locals.calls + 1,
                                   !.temps = @ \cup {locals.calls + 1}]
    /\ pc' = "written"
    /\ TempFrame

\* NamedTemporaryFile raises: no file has been created, and the exception
\* leaves the function, write_temp being called outside every try
CreateTempFails ==
    /\ pc = "idle" /\ locals.calls < input
    /\ \E fn \in TempUsers : locals' = [locals EXCEPT !.calls = @ + 1, !.fn = fn]
    /\ pc' = "idle"
    /\ TempFrame

\* tmp.write raises (the disk is full): the file made with delete=False
\* stays, and the exception leaves the function
WriteTempFails ==
    /\ pc = "idle" /\ locals.calls < input
    /\ \E fn \in TempUsers :
          locals' = [locals EXCEPT !.calls = @ + 1, !.fn = fn,
                                   !.temps = @ \cup {locals.calls + 1},
                                   !.failed = @ \cup {locals.calls + 1}]
    /\ pc' = "idle"
    /\ TempFrame

\* load_registry_hive: Registry(tmp) reads the file and closes it; the temp
\* file is removed whether it returns or raises
LoadHive ==
    /\ pc = "written" /\ locals.fn = "load_registry_hive"
    /\ locals' = [locals EXCEPT !.temps = @ \ {locals.tmp}, !.tmp = 0]
    /\ pc' = "idle"
    /\ TempFrame

\* sqlite3.connect(tmp) returns a connection
Connect ==
    /\ pc = "written" /\ locals.fn \in BrowserExtractors
    /\ locals' = [locals EXCEPT !.conns = @ \cup {locals.tmp}]
    /\ pc' = "connected"
    /\ TempFrame

\* sqlite3.connect(tmp) raises: in the finally conn.close() fails on the
\* unbound name, which is passed over, and the temp file is removed
ConnectFails ==
    /\ pc = "written" /\ locals.fn \in BrowserExtractors
    /\ locals' = [locals EXCEPT !.temps = @ \ {locals.tmp}, !.tmp = 0]
    /\ pc' = "idle"
    /\ TempFrame

\* the query and the loop over its rows end, by the last row or by an
\* exception; the finally closes the connection and removes the temp file
QueryEnds ==
    /\ pc = "connected"
    /\ locals' = [locals EXCEPT !.conns = @ \ {locals.tmp}, !.temps = @ \ {locals.tmp},
                                !.tmp = 0]
    /\ pc' = "idle"
    /\ TempFrame

TempNext ==
    \/ SkipMissing \/ WriteTemp \/ CreateTempFails \/ WriteTempFails
    \/ LoadHive \/ Connect \/ ConnectFails \/ QueryEnds

SpecTemp == InitTemp /\ [][TempNext]_vars

\* C26: whenever none of the functions is running, no temp file written by
\* them exists and no connection opened by them is open, whichever of the
\* success, skip and error paths the calls so far have taken.
C26_NothingOutlivesTheCall ==
    pc = "idle" => locals.temps = {} /\ locals.conns = {}

\* What the code keeps: no connection outlives its call, and the temp files
\* that do are those whose writing failed inside write_temp.
OnlyFailedWritesStay ==
    /\ pc = "idle" => locals.conns = {} /\ locals.temps = locals.failed
    /\ pc # "idle" => locals.temps = locals.failed \cup {locals.tmp}
    /\ locals.conns \subseteq {locals.tmp}

\* ============================ registry_artifacts.py: installed programs
\* Value names, dict keys and texts are sequences of code points.
\* "DisplayName"
VnDisplayName == <<68, 105, 115, 112, 108, 97, 121, 78, 97, 109, 101>>
\* "DisplayVersion"
VnDisplayVersion == <<68, 105, 115, 112, 108, 97, 121, 86, 101, 114, 115, 105, 111, 110>>
\* "Publisher"
VnPublisher == <<80, 117, 98, 108, 105, 115, 104, 101, 114>>
\* "InstallDate"
VnInstallDate == <<73, 110, 115, 116, 97, 108, 108, 68, 97, 116, 101>>
\* "InstallLocation"
VnInstallLocation == <<73, 110, 115, 116, 97, 108, 108, 76, 111, 99, 97, 116, 105, 111, 110>>
\* "UninstallString"
VnUninstallString == <<85, 110, 105, 110, 115, 116, 97, 108, 108, 83, 116, 114, 105, 110, 103>>
\* "EstimatedSize"
VnEstimatedSize == <<69, 115, 116, 105, 109, 97, 116, 101, 100, 83, 105, 122, 101>>
\* "display_name"
KeyDisplayName == <<100, 105, 115, 112, 108, 97, 121, 95, 110, 97, 109, 101>>
\* "display_version"
KeyDisplayVersion == <<100, 105, 115, 112, 108, 97, 121, 95, 118, 101, 114, 115, 105, 111, 110>>
\* "publisher"
KeyPublisher == <<112, 117, 98, 108, 105, 115, 104, 101, 114>>
\* "install_date"
KeyInstallDate == <<105, 110, 115, 116, 97, 108, 108, 95, 100, 97, 116, 101>>
\* "install_location"
KeyInstallLocation == <<105, 110, 115, 116, 97, 108, 108, 95, 108, 111, 99, 97, 116, 105, 111, 110>>
\* "uninstall_string"
KeyUninstallString == <<117, 110, 105, 110, 115, 116, 97, 108, 108, 95, 115, 116, 114, 105, 110, 103>>
\* "estimated_size"
KeyEstimatedSize == <<101, 115, 116, 105, 109, 97, 116, 101, 100, 95, 115, 105, 122, 101>>
\* "registry_key"
KeyRegistryKey == <<114, 101, 103, 105, 115, 116, 114, 121, 95, 107, 101, 121>>
\* "display" and "display_"
TextDisplay == <<100, 105, 115, 112, 108, 97, 121>>
TextDisplayUnderscore == <<100, 105, 115, 112, 108, 97, 121, 95>>

UninstallValueNames ==
    <<VnDisplayName, VnDisplayVersion, VnPublisher, VnInstallDate, VnInstallLocation,
      VnUninstallString, VnEstimatedSize>>
ProgramFields ==
    <<KeyDisplayName, KeyDisplayVersion, KeyPublisher, KeyInstallDate, KeyInstallLocation,
      KeyUninstallString, KeyEstimatedSize>>

\* str.replace(old, new)
RECURSIVE Replace(_, _, _)
Replace(s, old, new) ==
    IF Len(s) < Len(old) THEN s
    ELSE IF SubSeq(s, 1, Len(old)) = old
    THEN new \o Replace(SubSeq(s, Len(old) + 1, Len(s)), old, new)
    ELSE <<Head(s)>> \o Replace(Tail(s), old, new)

\* value_name.lower().replace("display", "display_")
ProgramInfoKey(value_name) == Replace(Lower(value_name), TextDisplay, TextDisplayUnderscore)

\* the text of the number 0, the default of estimated_size
TextZero == <<48>>

\* program_info as it is initialised for a subkey
NewProgramInfo(program_key) ==
    [k \in {KeyRegistryKey} \cup Range(ProgramFields) |->
        IF k = KeyRegistryKey THEN program_key.name
        ELSE IF k = KeyEstimatedSize THEN TextZero ELSE <<>>]

\* "for value_name in [...]": program_info after the value names from the
\* i-th on; a value the subkey does not have raises and is passed over
RECURSIVE ProgramInfo(_, _, _)
ProgramInfo(program_key, info, i) ==
    IF i > Len(UninstallValueNames) THEN info
    ELSE LET value_name == UninstallValueNames[i]
             key == ProgramInfoKey(value_name)
         IN  ProgramInfo(program_key,
                         IF value_name \in DOMAIN program_key.values
                         THEN [k \in DOMAIN info \cup {key} |->
                                  IF k = key THEN program_key.values[value_name] ELSE info[k]]
                         ELSE info,
                         i + 1)

\* the records of the subkeys of one Uninstall key (None: the key does not
\* exist, reg.open raises and the subtree gives nothing)
RECURSIVE ProgramsOf(_)
ProgramsOf(subkeys) ==
    IF subkeys = <<>> THEN <<>>
    ELSE LET program_info == ProgramInfo(Head(subkeys), NewProgramInfo(Head(subkeys)), 1)
         IN  (IF program_info[KeyDisplayName] # <<>> THEN <<program_info>> ELSE <<>>)
             \o ProgramsOf(Tail(subkeys))

\* extract_installed_programs on a loaded SOFTWARE hive [native, wow6432]
extract_installed_programs(reg) ==
    (IF reg.native = None THEN <<>> ELSE ProgramsOf(reg.native[1]))
    \o (IF reg.wow6432 = None THEN <<>> ELSE ProgramsOf(reg.wow6432[1]))

\* ---- Uninstall keys
MaxPrograms == 1

\* the value stored under a name: "v" and the name; DisplayName may be ""
StoredValue(value_name) == <<118>> \o value_name

ProgramKeys(name) ==
    {[name |-> name, values |-> [n \in present |->
                                    IF n = VnDisplayName /\ blank THEN <<>> ELSE StoredValue(n)]] :
        present \in SUBSET Range(UninstallValueNames), blank \in BOOLEAN}

UninstallKeys(name) ==
    {None} \cup {Some(subkeys) :
                    subkeys \in UNION {[1..n -> ProgramKeys(name)] : n \in 0..MaxPrograms}}

InitPrograms ==
    /\ env = [host |-> [stdout_unicode |-> TRUE, tmp_fail |-> {}, posix |-> TRUE,
                        tz_secs |-> 0]]
    /\ input \in [native : UninstallKeys(<<110>>), wow6432 : UninstallKeys(<<119>>)]
    /\ pc = "call"
    /\ self = NewExtractor
    /\ locals = [user_profiles |-> <<>>, all_artifacts |-> NoArtifacts]
    /\ ret = Pending
    /\ files_out = {}
    /\ output = Idle

ExtractInstalledPrograms == Call(extract_installed_programs(input))
SpecPrograms == InitPrograms /\ [][ExtractInstalledPrograms]_vars

\* the subkeys of both subtrees
ProgramSubkeys ==
    (IF input.native = None THEN {} ELSE Range(input.native[1]))
    \cup (IF input.wow6432 = None THEN {} ELSE Range(input.wow6432[1]))

HasDisplayName(k) == VnDisplayName \in DOMAIN k.values /\ k.values[VnDisplayName] # <<>>

\* C27: extract_installed_programs emits one record for exactly the subkeys
\* of the two Uninstall subtrees that have a non-empty DisplayName, and in
\* each record display_name, display_version, publisher, install_date,
\* install_location, uninstall_string and estimated_size hold the subkey's
\* DisplayName, DisplayVersion, Publisher, InstallDate, InstallLocation,
\* UninstallString and EstimatedSize whenever the subkey has them.
C27_ProgramFieldsHoldTheValues ==
    pc = "returned" =>
        /\ Len(output) = Cardinality({k \in ProgramSubkeys : HasDisplayName(k)})
        /\ \A k \in ProgramSubkeys :
              HasDisplayName(k) =>
                  \E i \in 1..Len(output) :
                      /\ output[i][KeyRegistryKey] = k.name
                      /\ \A f \in 1..7 :
                            UninstallValueNames[f] \in DOMAIN k.values =>
                                output[i][ProgramFields[f]] = k.values[UninstallValueNames[f]]

\* What the code keeps: the records are those of the subkeys with a
\* DisplayName; display_name, display_version and publisher hold the
\* values, the other four fields keep their initial content and the values
\* sit under the lower-cased value names.
OnlyDisplayFieldsHoldTheValues ==
    pc = "returned" =>
        /\ Len(output) = Cardinality({k \in ProgramSubkeys : HasDisplayName(k)})
        /\ \A k \in ProgramSubkeys :
              HasDisplayName(k) =>
                  \E i \in 1..Len(output) :
                      /\ output[i][KeyRegistryKey] = k.name
                      /\ \A f \in 1..3 :
                            UninstallValueNames[f] \in DOMAIN k.values =>
                                output[i][ProgramFields[f]] = k.values[UninstallValueNames[f]]
                      /\ \A f \in 4..7 :
                            /\ output[i][ProgramFields[f]] =
                                  (IF f = 7 THEN TextZero ELSE <<>>)
                            /\ UninstallValueNames[f] \in DOMAIN k.values =>
                                  output[i][Lower(UninstallValueNames[f])] =
                                      k.values[UninstallValueNames[f]]

\* ===================== recycle_bin.py: the probed locations on one volume
\* A volume is [case_insensitive, dirs]: dirs maps the name a directory of
\* the root has on disk to the deletion records [id, file_size] stored in
\* it (in its INFO2 file, or in the $I files of its one user directory).
\* the name as the case-insensitive comparison of the filesystem sees it
FoldCase(name) == IF name = "Recycler" THEN "RECYCLER" ELSE name

\* fs.open_dir("/" + path): the names on disk the path reaches
DirsAt(vol, path) ==
    {name \in DOMAIN vol.dirs :
        \/ name = path
        \/ vol.case_insensitive /\ FoldCase(name) = FoldCase(path)}

\* analyze_recycle_bin_locations: one location for every probed path that
\* lists a directory with entries, from the i-th path on
RECURSIVE analyze_recycle_bin_locations(_, _)
analyze_recycle_bin_locations(vol, i) ==
    IF i > Len(RecycleLocations) THEN <<>>
    ELSE LET path == RecycleLocations[i]
         IN  (IF DirsAt(vol, path) # {}
              THEN <<[path |-> path,
                      type |-> IF path = "$Recycle.Bin" THEN "vista_plus" ELSE "xp_2000",
                      entries |-> vol.dirs[CHOOSE name \in DirsAt(vol, path) : TRUE]]>>
              ELSE <<>>)
             \o analyze_recycle_bin_locations(vol, i + 1)

RECURSIVE SumSizes(_)
SumSizes(files) ==
    IF files = <<>> THEN 0 ELSE Head(files).file_size + SumSizes(Tail(files))

\* extract_all_recycle_bin_artifacts: the records of every location are
\* appended to deleted_files and added to total_size
RecycleBinDocument(vol) ==
    LET locations == analyze_recycle_bin_locations(vol, 1)
        deleted_files == Flatten([i \in 1..Len(locations) |-> locations[i].entries])
    IN  [locations |-> [i \in 1..Len(locations) |-> locations[i].path],
         deleted_files |-> deleted_files,
         summary |-> [total_deleted_files |-> Len(deleted_files),
                      total_size |-> SumSizes(deleted_files)]]

\* ---- volumes
MaxDeleted == 2
DeletedSizes == {10, 20}

RecordsIn(name) ==
    UNION {{[k \in 1..n |-> [id |-> <<name, k>>, file_size |-> sizes[k]]] :
              sizes \in [1..n -> DeletedSizes]} : n \in 0..MaxDeleted}

\* every set of directories a root can hold: two names that differ in case
\* only live together on a case-sensitive volume
RecycleVols ==
    UNION {UNION {{[case_insensitive |-> ci, dirs |-> dirs] :
                      dirs \in {d \in [names -> UNION {RecordsIn(n) : n \in names}] :
                                   \A n \in names : d[n] \in RecordsIn(n)}} :
                  names \in {s \in SUBSET Range(RecycleLocations) :
                                ci => ~({"RECYCLER", "Recycler"} \subseteq s)}} :
           ci \in BOOLEAN}

InitRecycle ==
    /\ env = [host |-> [stdout_unicode |-> TRUE, tmp_fail |-> {}, posix |-> TRUE,
                        tz_secs |-> 0]]
    /\ input \in RecycleVols
    /\ pc = "call"
    /\ self = NewExtractor
    /\ locals = [user_profiles |-> <<>>, all_artifacts |-> NoArtifacts]
    /\ ret = Pending
    /\ files_out = {}
    /\ output = Idle

ExtractAllRecycleBin == Call(RecycleBinDocument(input))
SpecRecycle == InitRecycle /\ [][ExtractAllRecycleBin]_vars

\* the records on disk, and how often one of them is in deleted_files
OnDisk == UNION {Range(input.dirs[name]) : name \in DOMAIN input.dirs}
Copies(r) == Cardinality({i \in 1..Len(output.deleted_files) : output.deleted_files[i] = r})

RECURSIVE SizeOfAll(_)
SizeOfAll(records) ==
    IF records = {} THEN 0
    ELSE LET r == CHOOSE r \in records : TRUE
         IN  r.file_size + SizeOfAll(records \ {r})

\* C28: on a volume that matches paths without regard to case every
\* on-disk deletion record is in deleted_files exactly once, and
\* total_deleted_files and total_size count each record once.
C28_EachRecordOnce ==
    (pc = "returned" /\ input.case_insensitive) =>
        /\ \A r \in OnDisk : Copies(r) = 1
        /\ output.summary.total_deleted_files = Cardinality(OnDisk)
        /\ output.summary.total_size = SizeOfAll(OnDisk)

\* What the code keeps: a record is reported once for every probed path
\* that reaches its directory, which is once on a case-sensitive volume and
\* twice for the directory that /RECYCLER and /Recycler both reach.
OncePerProbedPath ==
    pc = "returned" =>
        /\ \A name \in DOMAIN input.dirs : \A r \in Range(input.dirs[name]) :
              Copies(r) = (IF input.case_insensitive /\ FoldCase(name) = "RECYCLER"
                           THEN 2 ELSE 1)
        /\ output.summary.total_deleted_files = Len(output.deleted_files)
        /\ output.summary.total_size = SumSizes(output.deleted_files)

\* ===================== filesystem_artifacts.py: the search for link files
\* A directory structure is a function from directories to the sequence of
\* their entries: 0 is a .lnk file, n > 0 the directory n reached by that
\* entry (a subdirectory, or a junction to any directory, which makes a
\* cycle).  The search is run step by step: locals is [stack, found], the
\* stack holding for every call that has listed its directory
\* [dir, depth, i], i the entry the loop is at.
LinkMaxDepth == 5
MaxDirs == 2
MaxDirEntries == 2

\* "if current_depth > max_depth"
DepthReachedLate(current_depth, max_depth) == current_depth > max_depth

\* "if current_depth >= max_depth: return []"
DepthReached(current_depth, max_depth) == current_depth >= max_depth

DirStructures ==
    [1..MaxDirs -> UNION {[1..n -> 0..MaxDirs] : n \in 0..MaxDirEntries}]

InitLinkSearch ==
    /\ env = [host |-> [stdout_unicode |-> TRUE, tmp_fail |-> {}, posix |-> TRUE,
                        tz_secs |-> 0]]
    /\ input \in DirStructures
    /\ pc = "call"
    /\ self = NewExtractor
    /\ locals = [stack |-> <<>>, found |-> <<>>]
    /\ ret = Pending
    /\ files_out = {}
    /\ output = Idle

LinkFrame == UNCHANGED <<env, self, ret, files_out, input>>

Top == locals.stack[Len(locals.stack)]
AtEntry == Top.i <= Len(input[Top.dir])
Advanced == [locals.stack EXCEPT ![Len(locals.stack)].i = @ + 1]

\* _find_link_files_recursive(base_path): depth 0 is below the limit and
\* the search root is listed
StartLinkSearch ==
    /\ pc = "call"
    /\ ~DepthReached(0, LinkMaxDepth)
    /\ locals' = [locals EXCEPT !.stack = <<[dir |-> 1, depth |-> 0, i |-> 1]>>]
    /\ pc' = "running"
    /\ output' = output
    /\ LinkFrame

\* the entry is a .lnk file: it is parsed and reported
VisitLink ==
    /\ pc = "running" /\ AtEntry
    /\ input[Top.dir][Top.i] = 0
    /\ locals' = [locals EXCEPT !.stack = Advanced,
                                !.found = Append(@, [dir |-> Top.dir, depth |-> Top.depth])]
    /\ UNCHANGED <<pc, output>>
    /\ LinkFrame

\* the entry is a directory below the limit: the recursive call lists it
Descend ==
    /\ pc = "running" /\ AtEntry
    /\ input[Top.dir][Top.i] # 0
    /\ ~DepthReached(Top.depth + 1, LinkMaxDepth)
    /\ locals' = [locals EXCEPT !.stack =
                     Append(Advanced, [dir |-> input[Top.dir][Top.i],
                                       depth |-> Top.depth + 1, i |-> 1])]
    /\ UNCHANGED <<pc, output>>
    /\ LinkFrame

\* the entry is a directory at the limit: the recursive call returns []
\* without listing it
RefuseAtLimit ==
    /\ pc = "running" /\ AtEntry
    /\ input[Top.dir][Top.i] # 0
    /\ DepthReached(Top.depth + 1, LinkMaxDepth)
    /\ locals' = [locals EXCEPT !.stack = Advanced]
    /\ UNCHANGED <<pc, output>>
    /\ LinkFrame

\* the loop over the entries is over: the call returns to its caller, the
\* outermost one with all link files found
ReturnLinks ==
    /\ pc = "running" /\ ~AtEntry
    /\ locals' = [locals EXCEPT !.stack = SubSeq(@, 1, Len(@) - 1)]
    /\ pc' = IF Len(locals.stack) = 1 THEN "returned" ELSE pc
    /\ output' = IF Len(locals.stack) = 1 THEN locals.found ELSE output
    /\ LinkFrame

LinkNext == StartLinkSearch \/ VisitLink \/ Descend \/ RefuseAtLimit \/ ReturnLinks
SpecLinkSearch == InitLinkSearch /\ [][LinkNext]_vars /\ WF_vars(LinkNext)

\* C29: _find_link_files_recursive terminates on every directory
\* structure, cycles included; it never lists a directory at depth 5 or
\* more below the search root, and every link file it reports lies in a
\* directory at most 4 levels below the root.
C29_LinkSearchTerminates ==
    /\ [](\A k \in 1..Len(locals.stack) : locals.stack[k].depth <= 4)
    /\ [](\A k \in 1..Len(locals.found) : locals.found[k].depth <= 4)
    /\ <>(pc = "returned")

\* a search in a directory that contains itself has ended, having reported
\* its link file at the depths 0 to 4
C29_Witness ==
    /\ pc = "returned"
    /\ input[1] = <<0, 1>>
    /\ Len(output) = 5
    /\ output[5].depth = 4

\* ============================ backend/forensic_api/views.py: job status
\* The database rows of the extraction jobs and of their cases, the
\* background thread of every job and one cancel request for it.  self is
\* the database [job, case]: the stored status of the job and of its case.
\* locals is [thread, cancel]: for every job the thread's [pc, status,
\* result], status being the field of the thread's own job object, and the
\* request's [pc, status], status being the field of the object that
\* get_object loaded.  save() writes the fields of the object to the row.
MaxJobs == 2
Jobs == 1..MaxJobs
ProcessResults == {"success", "failure", "exception"}

InitJobs ==
    /\ env = [host |-> [stdout_unicode |-> TRUE, tmp_fail |-> {}, posix |-> TRUE,
                        tz_secs |-> 0]]
    /\ input = Jobs
    /\ pc = "serving"
    /\ self = [job |-> [j \in Jobs |-> "queued"], case |-> [j \in Jobs |-> "pending"]]
    /\ locals = [thread |-> [j \in Jobs |-> [pc |-> "start", status |-> "queued",
                                             result |-> ""]],
                 cancel |-> [j \in Jobs |-> [pc |-> "start", status |-> ""]]]
    /\ ret = Pending
    /\ files_out = {}
    /\ output = Idle

JobsFrame == UNCHANGED <<env, pc, ret, files_out, input, output>>

\* "job.status = 'running'; job.started_at = ...; job.save()"
ThreadRunning(j) ==
    /\ locals.thread[j].pc = "start"
    /\ locals' = [locals EXCEPT !.thread[j].pc = "processing", !.thread[j].status = "running"]
    /\ self' = [self EXCEPT !.job[j] = "running"]
    /\ JobsFrame

\* processor.process_disk_image(...) returns a result or raises
ThreadProcessed(j) ==
    /\ locals.thread[j].pc = "processing"
    /\ \E result \in ProcessResults :
          locals' = [locals EXCEPT !.thread[j].pc = IF result = "exception" THEN "save_job"
                                                     ELSE "save_case",
                                   !.thread[j].result = result,
                                   !.thread[j].status = IF result = "success" THEN "completed"
                                                        ELSE "failed"]
    /\ self' = self
    /\ JobsFrame

\* "case.status = 'active'" resp. "'failed'", then "case.save()"
ThreadSaveCase(j) ==
    /\ locals.thread[j].pc = "save_case"
    /\ locals' = [locals EXCEPT !.thread[j].pc =
                     IF locals.thread[j].result = "exception" THEN "done" ELSE "save_job"]
    /\ self' = [self EXCEPT !.case[j] = IF locals.thread[j].result = "success" THEN "active"
                                        ELSE "failed"]
    /\ JobsFrame

\* "job.save()" with the status the thread set on its object; in the
\* except branch it comes before case.save()
ThreadSaveJob(j) ==
    /\ locals.thread[j].pc = "save_job"
    /\ locals' = [locals EXCEPT !.thread[j].pc =
                     IF locals.thread[j].result = "exception" THEN "save_case" ELSE "done"]
    /\ self' = [self EXCEPT !.job[j] = locals.thread[j].status]
    /\ JobsFrame

\* cancel: "job = self.get_object()"
CancelLoad(j) ==
    /\ locals.cancel[j].pc = "start"
    /\ locals' = [locals EXCEPT !.cancel[j].pc = "loaded", !.cancel[j].status = self.job[j]]
    /\ self' = self
    /\ JobsFrame

\* "if job.status in ['queued', 'running']: job.status = 'cancelled'; job.save()"
CancelSave(j) ==
    /\ locals.cancel[j].pc = "loaded"
    /\ locals.cancel[j].status \in {"queued", "running"}
    /\ locals' = [locals EXCEPT !.cancel[j].pc = "cancelled", !.cancel[j].status = "cancelled"]
    /\ self' = [self EXCEPT !.job[j] = "cancelled"]
    /\ JobsFrame

\* "else: return Response({'error': 'Job cannot be cancelled'}, status=400)"
CancelRefused(j) ==
    /\ locals.cancel[j].pc = "loaded"
    /\ locals.cancel[j].status \notin {"queued", "running"}
    /\ locals' = [locals EXCEPT !.cancel[j].pc = "refused"]
    /\ self' = self
    /\ JobsFrame

JobsNext ==
    \E j \in Jobs :
        \/ ThreadRunning(j) \/ ThreadProcessed(j) \/ ThreadSaveCase(j) \/ ThreadSaveJob(j)
        \/ CancelLoad(j) \/ CancelSave(j) \/ CancelRefused(j)

SpecJobs == InitJobs /\ [][JobsNext]_vars

\* C30: once the stored status of a job is 'cancelled' it stays
\* 'cancelled' in every interleaving with the background thread, and the
\* case of a cancelled job is not set to 'active'.
C30_CancelledStaysCancelled ==
    [][\A j \in Jobs :
          self.job[j] = "cancelled" =>
              /\ self'.job[j] = "cancelled"
              /\ (self'.case[j] = "active" => self.case[j] = "active")]_vars

\* What the code keeps: the thread never reads the stored status; what it
\* writes is the status of its own object, whatever the row holds, and the
\* cancel request writes only after having read 'queued' or 'running'.
ThreadWritesItsOwnStatus ==
    [][\A j \in Jobs :
          self'.job[j] # self.job[j] =>
              \/ self'.job[j] = locals'.thread[j].status
              \/ /\ self'.job[j] = "cancelled"
                 /\ locals.cancel[j].status \in {"queued", "running"}]_vars

====
